---- MODULE Spec2Model ----
(***************************************************************************)
(* Landsat bronze-layer ingestion: the M2M remote session (M2MClient) and  *)
(* the ingestion orchestrator (BronzeIngestion.run, _process_dataset,      *)
(* _process_scene), modelled as a state machine.                           *)
(*                                                                         *)
(* Spec       one run() of the orchestrator over 1..NumDatasets            *)
(* SpecRerun  Spec followed by further runs over the same store            *)
(* SpecClient the M2MClient operations called directly by a caller         *)
(* SpecDownload  one download_files_parallel call, task by task            *)
(* SpecFn     the functions of their arguments: file names, band names,    *)
(*            session retries, metadata format, parsing, footprint         *)
(* SpecScene  one _process_scene, download by download                     *)
(* SpecRegister  _insert_scene_metadata, statement by statement            *)
(* SpecMain   the ingest command: construction, run(), exit status         *)
(* SpecLists  Spec with the scene lists that exist at the remote           *)
(* SpecPool   download_files_parallel calls of successive scenes           *)
(* SpecPaths  SpecDownload with the file path each call resolves           *)
(* SpecLive   Spec under weak fairness of its steps                        *)
(***************************************************************************)
EXTENDS Integers, Sequences, FiniteSets, TLC

\* ---------------------------------------------------------------- bounds
NumDatasets == 2      \* length of the datasets list handed to run()
MaxScenes == 2        \* scenes in the remote catalog, over all datasets
MaxFiles == 2         \* available downloads returned for one scene
MaxRuns == 2          \* runs of the pipeline in SpecRerun
MaxCalls == 3         \* direct client calls in SpecClient
MaxWorkers == 2       \* largest configured MAX_CONCURRENT_DOWNLOADS in SpecDownload
MaxHeaderLen == 3     \* tokens of a Content-Disposition header in SpecFn
MaxTokens == 3        \* '_'-separated tokens of a file name in SpecFn
MaxRetries == 1       \* largest max_retries of an M2MClient in SpecFn
MaxLines == 2         \* lines of a metadata file whose format is detected in SpecFn
MaxDocLen == 5        \* lines of a metadata file that is parsed in SpecFn

\* ------------------------------------------------------ program constants
MockDownloads == 2    \* request_downloads mocks at most 2 downloads in dry-run
DefaultWorkers == 5   \* max_workers when MAX_CONCURRENT_DOWNLOADS is not configured

\* ------------------------------------------------------------ vocabulary
NoKey == "None"
Key == "api_key"
NoList == <<>>

Endpoints ==
  {"login-token", "logout", "scene-search", "scene-list-add",
   "download-options", "download-request", "scene-list-remove"}

\* What the remote answers to one request (after the session's retries):
\*   ok        a JSON envelope with data
\*   apiError  a JSON envelope with errorCode
\*   transport a requests.RequestException (network failure, HTTP error)
\*   malformed a body the envelope code does not expect (not a JSON object,
\*             errorCode without errorMessage): an exception that is not a
\*             RequestException
RemoteResponses == {"ok", "apiError", "transport", "malformed"}
LoginResponses == {"ok", "apiError", "transport"}

\* Outcome of one downloaded file in _process_scene:
\*   band    transferred, band name SR_*/ST_*/QA_* derived
\*   mtl     transferred, the metadata file (band name MTL)
\*   unnamed transferred, no band name derivable
\*   failed  download_file returned a failed result
FileKinds == {"band", "mtl", "unnamed", "failed"}

EntityIds == 1..MaxScenes
\* LANDSAT_PRODUCT_ID of the scene with M2M entity id e (another namespace)
ProductIdOf(e) == 0 - e

Min(a, b) == IF a <= b THEN a ELSE b
Range(s) == {s[i] : i \in 1..Len(s)}

\* ------------------------------------------------------------- M2MClient

\* _send_request: what the caller gets
\*   NotLoggedIn  RuntimeError("Not logged in...") before any request
\*   data         the response data
\*   None         logged error, None returned
\*   Error        an exception that is not caught
SendRequest(key, resp) ==
  IF key = NoKey THEN "NotLoggedIn"
  ELSE CASE resp = "ok" -> "data"
         [] resp \in {"apiError", "transport"} -> "None"
         [] OTHER -> "Error"

Raises(out) == out \in {"NotLoggedIn", "Error"}

\* endpoints a request has reached, after a call to endpoint ep through
\* _send_request
Sent(s, key, ep) ==
  IF key = NoKey THEN s ELSE s \cup {ep}

\* request_downloads: the dry-run branch returns a mocked response before
\* _send_request
RequestDownloadsOut(dry, key, resp) ==
  IF dry THEN "mock" ELSE SendRequest(key, resp)

RequestDownloadsSent(s, dry, key) ==
  IF dry THEN s ELSE Sent(s, key, "download-request")

\* delete_list: the dry-run branch returns True before _send_request
DeleteListOut(dry, key, resp) ==
  IF dry THEN "True"
  ELSE LET out == SendRequest(key, resp)
       IN  CASE out = "data" -> "True"
             [] out = "None" -> "False"
             [] OTHER -> out

DeleteListSent(s, dry, key) ==
  IF dry THEN s ELSE Sent(s, key, "scene-list-remove")

\* ------------------------------------------------------- BronzeIngestion

ZeroStats ==
  [total_scenes |-> 0, total_bands |-> 0, successful_scenes |-> 0,
   failed_scenes |-> 0, errors |-> <<>>]

SceneError(e) == [kind |-> "scene", id |-> e]
DatasetError(d) == [kind |-> "dataset", id |-> d]

\* run(): stats after _process_dataset returned dataset_stats
RunMerge(st, dst) ==
  [total_scenes |-> st.total_scenes + dst.total_scenes,
   total_bands |-> st.total_bands + dst.total_bands,
   successful_scenes |-> st.successful_scenes + dst.successful_scenes,
   failed_scenes |-> st.failed_scenes + dst.failed_scenes,
   errors |-> st.errors \o dst.errors]

RunExcept_NoRecord(st, d) == st

\* run(): stats after _process_dataset raised for dataset d
RunExcept(st, d) ==
  [st EXCEPT !.errors = Append(@, DatasetError(d))]

NewEntityIds_NoFilter(ids, existing) == ids

\* _process_dataset: the search results not already persisted
NewEntityIds(ids, existing) ==
  SelectSeq(ids, LAMBDA e : e \notin existing)

\* _get_existing_entity_ids, non-dry-run: SELECT ... WHERE entity_id = ANY(ids)
ExistingEntityIds(rows, ids) == {e \in Range(ids) : e \in rows}

Call(op, d, l, ids) == [op |-> op, ds |-> d, list |-> l, ids |-> ids]

\* The remote catalog: scenes 1..k, numbered dataset by dataset, each owned
\* by one dataset and returned by scene-search in identifier order.
IdSeq(k) == [i \in 1..k |-> i]
Owners(k) ==
  {owner \in [1..k -> 1..NumDatasets] :
     \A i, j \in 1..k : i < j => owner[i] <= owner[j]}
Catalogs ==
  UNION { { [d \in 1..NumDatasets |->
               SelectSeq(IdSeq(k), LAMBDA i : owner[i] = d)] :
            owner \in Owners(k) } : k \in 0..MaxScenes }

CatalogIds(cat) == UNION {Range(cat[d]) : d \in 1..NumDatasets}

VARIABLES
  dry_run,         \* the dry-run flag of the orchestrator and of its client
  api_key,         \* M2MClient.api_key
  sent,            \* endpoints a request of this run has reached
  catalog,         \* what scene-search finds, per dataset
  store,           \* entity_id column of bronze.landsat_scenes
  scratch,         \* scene directories that exist under temp_dir
  effects,         \* local side effects of this run: mkdir, write, rmtree, db, tool
  pc,              \* position of run()
  runNo,           \* number of this run
  loginResp,       \* what the remote answered to login ("none" before)
  ds,              \* index of the dataset being processed
  dsResult,        \* how _process_dataset ended: returned | raised
  stats,           \* run(): stats
  dstats,          \* _process_dataset(): stats
  scenes,          \* _process_dataset(): entity ids of the search results
  existing_ids,    \* _process_dataset(): existing_ids
  new_entity_ids,  \* _process_dataset(): new_entity_ids
  list_id,         \* _process_dataset(): list_id
  products,        \* _process_dataset(): products is a non-empty list
  idx,             \* position in new_entity_ids
  exc,             \* stage of _process_scene that raised ("none" otherwise)
  available,       \* _process_scene(): number of available downloads
  tifs,            \* _process_scene(): successfully_downloaded_tifs, by kind
  bands,           \* _process_scene(): bands_ingested
  scene_id,        \* _process_scene(): scene_id, the key of the row written
  band_keys,       \* scene keys the bands of this _process_scene are stored under
  store0,          \* entity_id column when this run started
  dl_pc,           \* download_files_parallel: idle | submit | collect | returned
  dl_scene,        \* _process_scene(): entity_id of the scene being downloaded
  dl_items,        \* download_files_parallel: download_urls
  max_workers,     \* download_files_parallel: max_workers
  futures,         \* state of the future of each item
  dl_out,          \* what download_file returned or raised, per item
  dl_results,      \* download_files_parallel: results
  disk,            \* file names that exist in the scene directory
  propagating,     \* an exception is leaving the scene loop
  calls,           \* calls made in this dataset iteration, in order
  found,           \* what each search_scenes of this run returned, in order
  raisedScenes,    \* entity ids whose _process_scene raised in this run
  prev,            \* summary of the previous run (SpecRerun)
  lastCall,        \* SpecClient: last direct client call and its outcome
  arg,             \* SpecFn: the function applied and its arguments
  ret,             \* SpecFn: what the function returned or raised
  sc_pc,           \* SpecScene: position of _process_scene
  requested,       \* _process_scene(): files of `downloads`, handed to request_downloads
  download_results,             \* _process_scene(): download_results
  sc_pos,                       \* _process_scene(): position in download_results
  successfully_downloaded_tifs, \* _process_scene(): (file, band name) pairs
  download_log,    \* rows of bronze.download_log, in insertion order
  band_rows,       \* file names stored as band rows by _ingest_single_band
  landsat_scenes,  \* SpecRegister: rows of bronze.landsat_scenes
  scene_id_seq,    \* SpecRegister: last value of the sequence of scene_id
  tools,           \* SpecMain: the external tools shutil.which finds
  constructed,     \* SpecMain: how BronzeIngestion(...) ended ("none" before)
  exit_status,     \* SpecMain: exit status of the process (NoExit while it runs)
  remote_lists,    \* SpecLists: ids of the scene lists that exist at the remote
  dl_path          \* SpecPaths: the file path each download_file call has chosen

vars ==
  <<dry_run, api_key, sent, catalog, store, scratch, effects, pc,
    runNo, loginResp, ds, dsResult, stats, dstats, scenes, existing_ids,
    new_entity_ids, list_id, products, idx, exc, available, tifs, bands,
    scene_id, band_keys, store0, propagating, calls, found, raisedScenes,
    prev, lastCall, dl_pc, dl_scene, dl_items, max_workers, futures, dl_out,
    dl_results, disk, arg, ret, sc_pc, requested, download_results, sc_pos,
    successfully_downloaded_tifs, download_log, band_rows, landsat_scenes,
    scene_id_seq, tools, constructed, exit_status, remote_lists,
    dl_path>>

envVars == <<dry_run, catalog, runNo, prev, lastCall, store0>>
sceneVars == <<available, tifs, bands>>
keyVars == <<scene_id, band_keys>>
poolVars ==
  <<dl_pc, dl_scene, dl_items, max_workers, futures, dl_out, dl_results, disk>>

tableVars == <<landsat_scenes, scene_id_seq>>
mainVars == <<tools, constructed, exit_status>>
fnVars == <<arg, ret, tableVars, mainVars, remote_lists, dl_path>>
logVars ==
  <<sc_pc, requested, download_results, sc_pos, successfully_downloaded_tifs,
    download_log, band_rows>>

NoTifs == [band |-> 0, mtl |-> 0]
NoPrev == [clean |-> FALSE, found |-> <<>>, rows |-> 0]
NoCall ==
  [op |-> "none", key |-> NoKey, resp |-> "none", out |-> "none",
   requested |-> FALSE]

\* no download_files_parallel call is in progress
PoolIdle ==
  /\ dl_pc = "idle"
  /\ dl_scene = 0
  /\ dl_items = <<>>
  /\ max_workers = DefaultWorkers
  /\ futures = <<>>
  /\ dl_out = <<>>
  /\ dl_results = <<>>
  /\ disk = {}

NoArg == [fn |-> "none"]
NoRet == [done |-> FALSE, raised |-> FALSE, value |-> <<>>]

\* no statement has reached bronze.landsat_scenes
TableIdle ==
  /\ landsat_scenes = {}
  /\ scene_id_seq = 0

NoExit == 0 - 1

\* an orchestrator that exists, with every tool installed, in a process
\* that has not exited
MainIdle ==
  /\ tools = {"raster2pgsql", "psql"}
  /\ constructed = "ok"
  /\ exit_status = NoExit

\* no function is being applied
FnIdle ==
  /\ arg = NoArg
  /\ ret = NoRet
  /\ TableIdle
  /\ MainIdle
  /\ remote_lists = {}
  /\ dl_path = [i \in 1..MaxFiles |-> 0]

\* no _process_scene is being followed file by file
LogIdle ==
  /\ sc_pc = "idle"
  /\ requested = {}
  /\ download_results = <<>>
  /\ sc_pos = 0
  /\ successfully_downloaded_tifs = <<>>
  /\ download_log = <<>>
  /\ band_rows = {}

\* State of a freshly constructed orchestrator and client, before run()
RunStart ==
  /\ api_key = NoKey
  /\ sent = {}
  /\ effects = {}
  /\ pc = "start"
  /\ loginResp = "none"
  /\ ds = 0
  /\ dsResult = "none"
  /\ stats = ZeroStats
  /\ dstats = ZeroStats
  /\ scenes = <<>>
  /\ existing_ids = {}
  /\ new_entity_ids = <<>>
  /\ list_id = NoList
  /\ products = FALSE
  /\ idx = 0
  /\ exc = "none"
  /\ available = 0
  /\ tifs = NoTifs
  /\ bands = 0
  /\ scene_id = 0
  /\ band_keys = {}
  /\ propagating = FALSE
  /\ calls = <<>>
  /\ found = <<>>
  /\ raisedScenes = {}

Init ==
  /\ dry_run \in BOOLEAN
  /\ catalog \in Catalogs
  /\ store \in SUBSET CatalogIds(catalog)
  /\ store0 = store
  /\ PoolIdle
  /\ scratch = {}
  /\ runNo = 1
  /\ prev = NoPrev
  /\ lastCall = NoCall
  /\ FnIdle
  /\ LogIdle
  /\ RunStart


\* ------------------------------------------------------------ run() steps

\* M2MClient.login: the api_key after the response
LoginKey(key, resp) == IF resp = "ok" THEN Key ELSE key

\* M2MClient.login: True, False (errorCode, logged) or Error (re-raised
\* RequestException)
LoginOut(resp) ==
  CASE resp = "ok" -> "True"
    [] resp = "apiError" -> "False"
    [] OTHER -> "Error"

\* run(): `with M2MClient(...) as client` -> __enter__ -> login(); the value
\* login() returns is dropped by __enter__
Login ==
  /\ pc = "start"
  /\ \E resp \in LoginResponses :
       /\ loginResp' = resp
       /\ sent' = sent \cup {"login-token"}
       /\ api_key' = LoginKey(api_key, resp)
       /\ IF LoginOut(resp) = "Error"
            THEN pc' = "raised" /\ ds' = ds
            ELSE pc' = "search" /\ ds' = 1
  /\ UNCHANGED <<envVars, poolVars, fnVars, logVars, keyVars, sceneVars, store, scratch, effects,
                 dsResult, stats, dstats, scenes, existing_ids, new_entity_ids,
                 list_id, products, idx, exc, propagating, calls, found, raisedScenes>>

\* _process_dataset: stats = {...}; scenes = client.search_scenes(...);
\* if not scenes: return stats
SearchScenes ==
  /\ pc = "search"
  /\ \E resp \in RemoteResponses :
       LET out == SendRequest(api_key, resp)
           res == IF out = "data" THEN catalog[ds] ELSE <<>>
       IN  /\ sent' = Sent(sent, api_key, "scene-search")
           /\ calls' = Append(calls, Call("search_scenes", ds, NoList, res))
           /\ found' = Append(found, res)
           /\ scenes' = res
           /\ dstats' = ZeroStats
           /\ IF Raises(out)
                THEN pc' = "ds_end" /\ dsResult' = "raised"
                ELSE IF res = <<>>
                       THEN pc' = "ds_end" /\ dsResult' = "returned"
                       ELSE pc' = "dedup" /\ dsResult' = dsResult
  /\ UNCHANGED <<envVars, poolVars, fnVars, logVars, keyVars, sceneVars, api_key, store, scratch,
                 effects, loginResp, ds, stats, existing_ids, new_entity_ids,
                 list_id, products, idx, exc, propagating, raisedScenes>>

\* _process_dataset: total_scenes, _get_existing_entity_ids, new_entity_ids;
\* if not new_entity_ids: return stats
Deduplicate ==
  /\ pc = "dedup"
  /\ \E dbOk \in BOOLEAN :
       IF ~dry_run /\ ~dbOk
         THEN \* psycopg2 raised in _get_existing_entity_ids
              /\ pc' = "ds_end" /\ dsResult' = "raised"
              /\ dstats' = [dstats EXCEPT !.total_scenes = Len(scenes)]
              /\ UNCHANGED <<existing_ids, new_entity_ids, effects>>
         ELSE LET existing == IF dry_run THEN {}
                              ELSE ExistingEntityIds(store, scenes)
                  new == NewEntityIds(scenes, existing)
              IN  /\ existing_ids' = existing
                  /\ new_entity_ids' = new
                  /\ dstats' = [dstats EXCEPT !.total_scenes = Len(scenes)]
                  /\ effects' = IF dry_run THEN effects ELSE effects \cup {"db"}
                  /\ IF new = <<>>
                       THEN pc' = "ds_end" /\ dsResult' = "returned"
                       ELSE pc' = "add" /\ dsResult' = dsResult
  /\ UNCHANGED <<envVars, poolVars, fnVars, logVars, keyVars, sceneVars, api_key, sent, store,
                 scratch, loginResp, ds, stats, scenes, list_id, products, idx,
                 exc, propagating, calls, found, raisedScenes>>

\* _process_dataset: list_id = ...; client.add_scenes_to_list(list_id, ...)
\* add_scenes_to_list has no dry-run branch; it is outside the try block
AddScenesToListAnswered(resp) ==
  /\ pc = "add"
  /\ LET out == SendRequest(api_key, resp)
         l == <<runNo, ds>>
     IN  /\ list_id' = l
         /\ sent' = Sent(sent, api_key, "scene-list-add")
         /\ calls' = Append(calls, Call("add_scenes_to_list", ds, l, new_entity_ids))
         /\ IF Raises(out)
              THEN pc' = "ds_end" /\ dsResult' = "raised"
              ELSE pc' = "options" /\ dsResult' = dsResult
  /\ UNCHANGED <<envVars, poolVars, arg, ret, tableVars, mainVars, dl_path,
                 logVars,
                 keyVars, sceneVars, api_key, store, scratch, effects,
                 loginResp, ds, stats, dstats, scenes, existing_ids,
                 new_entity_ids, products, idx, exc, propagating, found, raisedScenes>>

AddScenesToList ==
  \E resp \in RemoteResponses :
    AddScenesToListAnswered(resp) /\ UNCHANGED remote_lists

\* _process_dataset: products = client.get_download_options(list_id, ...)
\* also outside the try block.  get_download_options returns [] when
\* _send_request returned None.
GetDownloadOptions ==
  /\ pc = "options"
  /\ \E resp \in RemoteResponses :
       LET out == SendRequest(api_key, resp)
       IN  /\ sent' = Sent(sent, api_key, "download-options")
           /\ calls' = Append(calls, Call("get_download_options", ds, list_id, <<>>))
           /\ products' = (out = "data")
           /\ IF Raises(out)
                THEN pc' = "ds_end" /\ dsResult' = "raised" /\ idx' = idx
                ELSE pc' = "scene" /\ dsResult' = dsResult /\ idx' = 1
  /\ UNCHANGED <<envVars, poolVars, fnVars, logVars, keyVars, sceneVars, api_key, store, scratch,
                 effects, loginResp, ds, stats, dstats, scenes, existing_ids,
                 new_entity_ids, list_id, exc, propagating, found, raisedScenes>>


\* -------------------------------------------------- _process_scene steps

CurrentScene == new_entity_ids[idx]

\* the loop over download_results: successfully_downloaded_tifs holds the
\* results that succeeded and have a band name (the metadata file counts, its
\* band name is MTL); kept here up to order, as the number of each kind
TifsOf(res) ==
  [band |-> Cardinality({i \in DOMAIN res : res[i] = "band"}),
   mtl |-> Cardinality({i \in DOMAIN res : res[i] = "mtl"})]

\* `if not successfully_downloaded_tifs` is false
HasDownloadedTifs(t) == t.band + t.mtl > 0

\* number of entries of successfully_downloaded_tifs that
\* _ingest_bands_to_postgis hands to raster2pgsql (metadata files are skipped)
SpectralBands(t) == t.band

MtlFound_Always(t) == TRUE

\* _find_mtl_file, non-dry-run: a file matching *MTL.txt, *MTL.xml or *_MTL*
MtlFound(t) == t.mtl > 0

\* _process_scene lines 281-297: filter_bands, request_downloads,
\* availableDownloads.  downloads: whether filter_bands keeps a download of
\* this scene, which takes a product of the scene in products.
RequestDownloads ==
  /\ pc = "scene"
  /\ \E downloads \in {FALSE, products} :
     LET e == CurrentScene
         called == Append(calls, Call("_process_scene", ds, list_id, <<e>>))
     IN  IF ~downloads
           THEN \* raise ValueError("No bands available ...")
                /\ calls' = called
                /\ pc' = "scene_exc" /\ exc' = "request"
                /\ UNCHANGED <<sent, available>>
           ELSE \E resp \in RemoteResponses, n \in 0..MaxFiles, nd \in 1..MaxFiles :
                  LET out == RequestDownloadsOut(dry_run, api_key, resp)
                      avail == CASE out = "mock" -> Min(nd, MockDownloads)
                                 [] out = "data" -> n
                                 [] OTHER -> 0
                  IN  /\ calls' = Append(called, Call("request_downloads", ds, list_id, <<e>>))
                      /\ sent' = RequestDownloadsSent(sent, dry_run, api_key)
                      /\ available' = avail
                      /\ IF avail = 0
                           THEN \* the call raised, None.get(...) raised, or
                                \* ValueError("No downloads available ...")
                                pc' = "scene_exc" /\ exc' = "request"
                           ELSE pc' = "download" /\ exc' = exc
  /\ UNCHANGED <<envVars, poolVars, fnVars, logVars, keyVars, api_key, store, scratch, effects,
                 loginResp, ds, dsResult, stats, dstats, scenes, existing_ids,
                 new_entity_ids, list_id, products, idx, tifs, bands,
                 propagating, found, raisedScenes>>

\* _process_scene lines 299-331: scene_dir.mkdir, download_files_parallel,
\* one download_log row per result, ValueError when nothing was downloaded.
\* Neither mkdir (here and in download_files_parallel) has a dry-run branch.
DownloadFiles ==
  /\ pc = "download"
  /\ scratch' = scratch \cup {CurrentScene}
  /\ IF dry_run
       THEN \* download_file returns a dummy <entity>_SR_B4.tif, nothing written
            /\ tifs' = TifsOf([i \in 1..available |-> "band"])
            /\ effects' = effects \cup {"mkdir"}
            /\ pc' = "mtl" /\ exc' = exc
       ELSE \E res \in [1..available -> FileKinds], dbOk \in BOOLEAN :
              /\ tifs' = TifsOf(res)
              /\ effects' = effects \cup {"mkdir"}
                              \cup (IF \E i \in 1..available : res[i] # "failed"
                                      THEN {"write"} ELSE {})
                              \cup (IF dbOk THEN {"db"} ELSE {})
              /\ IF ~dbOk \/ ~HasDownloadedTifs(TifsOf(res))
                   THEN pc' = "scene_exc" /\ exc' = "download"
                   ELSE pc' = "mtl" /\ exc' = exc
  /\ UNCHANGED <<envVars, poolVars, fnVars, logVars, keyVars, api_key, sent, store, loginResp, ds,
                 dsResult, stats, dstats, scenes, existing_ids, new_entity_ids,
                 list_id, products, idx, available, bands, propagating, calls,
                 found, raisedScenes>>

\* _process_scene lines 333-336: _find_mtl_file (a dummy path in dry-run)
FindMtlFile ==
  /\ pc = "mtl"
  /\ IF dry_run \/ MtlFound(tifs)
       THEN pc' = "insert" /\ exc' = exc
       ELSE pc' = "scene_exc" /\ exc' = "mtl"
  /\ UNCHANGED <<envVars, poolVars, fnVars, logVars, keyVars, sceneVars, api_key, sent, store,
                 scratch, effects, loginResp, ds, dsResult, stats, dstats,
                 scenes, existing_ids, new_entity_ids, list_id, products, idx,
                 propagating, calls, found, raisedScenes>>

\* get_scene_metadata: entity_id is the LANDSAT_PRODUCT_ID of the metadata
\* file; which is "entityId" when the file carries the M2M entity id there
MtlEntityId(e, carries) == IF carries = "entityId" THEN e ELSE ProductIdOf(e)

\* _insert_scene_metadata: INSERT ... ON CONFLICT (entity_id) DO UPDATE
UpsertScene(rows, id) == rows \cup {id}

\* _insert_scene_metadata: RETURNING scene_id, the surrogate key of the row
\* with entity_id id; a row is named here by its entity_id
SceneKey(id) == id

BandKey_EntityId(key, e) == e

\* _ingest_single_band: INSERT INTO bronze.landsat_bands_<year> (scene_id, ...)
\* with the scene_id handed over by _process_scene
BandKey(key, e) == key

\* _process_scene line 338: MTLParser, get_scene_metadata, upsert, commit
InsertSceneMetadata ==
  /\ pc = "insert"
  /\ IF dry_run
       THEN \* mock metadata, "return 0", no statement
            /\ pc' = "ingest" /\ exc' = exc
            /\ scene_id' = 0
            /\ UNCHANGED <<store, effects>>
       ELSE \E o \in {"parseError", "dbError", "entityId", "productId"} :
              IF o \in {"parseError", "dbError"}
                THEN /\ pc' = "scene_exc" /\ exc' = "insert"
                     /\ UNCHANGED <<store, effects, scene_id>>
                ELSE /\ store' = UpsertScene(store, MtlEntityId(CurrentScene, o))
                     /\ scene_id' = SceneKey(MtlEntityId(CurrentScene, o))
                     /\ effects' = effects \cup {"db"}
                     /\ pc' = "ingest" /\ exc' = exc
  /\ band_keys' = band_keys
  /\ UNCHANGED <<envVars, poolVars, fnVars, logVars, sceneVars, api_key, sent, scratch,
                 loginResp, ds, dsResult, stats, dstats, scenes, existing_ids,
                 new_entity_ids, list_id, products, idx, propagating, calls,
                 found, raisedScenes>>

\* _process_scene lines 340-346: _ingest_bands_to_postgis, rmtree, return.
\* rmtree has no dry-run branch and is reached only on this path.
IngestBands ==
  /\ pc = "ingest"
  /\ IF dry_run
       THEN /\ bands' = tifs.band + tifs.mtl
            /\ band_keys' = {}
            /\ effects' = effects \cup {"rmtree"}
            /\ scratch' = scratch \ {CurrentScene}
            /\ pc' = "scene_ok" /\ exc' = exc
       ELSE \E yearOk \in BOOLEAN, ingested \in 0..SpectralBands(tifs) :
              IF ~yearOk
                THEN \* _get_scene_year raised
                     /\ pc' = "scene_exc" /\ exc' = "ingest"
                     /\ UNCHANGED <<bands, band_keys, effects, scratch>>
                ELSE /\ bands' = ingested
                     /\ band_keys' = IF ingested > 0
                                       THEN {BandKey(scene_id, CurrentScene)}
                                       ELSE {}
                     /\ effects' = effects \cup {"db", "rmtree"}
                                     \cup (IF SpectralBands(tifs) > 0
                                             THEN {"tool"} ELSE {})
                     /\ scratch' = scratch \ {CurrentScene}
                     /\ pc' = "scene_ok" /\ exc' = exc
  /\ scene_id' = scene_id
  /\ UNCHANGED <<envVars, poolVars, fnVars, logVars, api_key, sent, store, loginResp, ds,
                 dsResult, stats, dstats, scenes, existing_ids, new_entity_ids,
                 list_id, products, idx, available, tifs, propagating,
                 calls, found, raisedScenes>>


\* ------------------------------------- _process_dataset: the scene loop

AfterScene_Abort(i, n) == "finally"

\* for entity_id in new_entity_ids: the loop goes on to the next scene, or
\* leaves the try block when there is none
AfterScene(i, n) == IF i < n THEN "scene" ELSE "finally"

\* lines 239-240: the scene returned
SceneSucceeded ==
  /\ pc = "scene_ok"
  /\ dstats' = [dstats EXCEPT !.total_bands = @ + bands,
                              !.successful_scenes = @ + 1]
  /\ pc' = AfterScene(idx, Len(new_entity_ids))
  /\ idx' = idx + 1
  /\ available' = 0 /\ tifs' = NoTifs /\ bands' = 0
  /\ scene_id' = 0 /\ band_keys' = {}
  /\ UNCHANGED <<envVars, poolVars, fnVars, logVars, api_key, sent, store, scratch, effects,
                 loginResp, ds, dsResult, stats, scenes, existing_ids,
                 new_entity_ids, list_id, products, exc, propagating, calls,
                 found, raisedScenes>>

\* _log_download_failure(entity_id, "SCENE_PROCESSING_ERROR", "N/A", None, ...)
\* raises: in dry-run always (None formatted with :.2f), otherwise when the
\* database does
LogSceneFailureRaises(dry, dbOk) == dry \/ ~dbOk

\* lines 242-248: except Exception around _process_scene
SceneFailed ==
  /\ pc = "scene_exc"
  /\ dstats' = [dstats EXCEPT !.failed_scenes = @ + 1,
                              !.errors = Append(@, SceneError(CurrentScene))]
  /\ raisedScenes' = raisedScenes \cup {CurrentScene}
  /\ \E dbOk \in BOOLEAN :
       IF LogSceneFailureRaises(dry_run, dbOk)
         THEN \* the handler raised: the loop is left through finally
              /\ pc' = "finally" /\ propagating' = TRUE
              /\ effects' = effects
         ELSE /\ pc' = AfterScene(idx, Len(new_entity_ids))
              /\ propagating' = propagating
              /\ effects' = effects \cup {"db"}
  /\ idx' = idx + 1
  /\ exc' = "none"
  /\ available' = 0 /\ tifs' = NoTifs /\ bands' = 0
  /\ scene_id' = 0 /\ band_keys' = {}
  /\ UNCHANGED <<envVars, poolVars, fnVars, logVars, api_key, sent, store, scratch,
                 loginResp, ds, dsResult, stats, scenes, existing_ids,
                 new_entity_ids, list_id, products, calls, found>>

\* lines 249-260: finally: delete_list unless dry-run, its exceptions logged;
\* then return stats, or the exception goes on to run()
ReleaseListAnswered(resp) ==
  /\ pc = "finally"
  /\ IF dry_run
       THEN UNCHANGED <<sent, calls>>
       ELSE /\ sent' = DeleteListSent(sent, dry_run, api_key)
            /\ calls' = Append(calls, Call("delete_list", ds, list_id, <<>>))
  /\ pc' = "ds_end"
  /\ dsResult' = IF propagating THEN "raised" ELSE "returned"
  /\ propagating' = FALSE
  /\ UNCHANGED <<envVars, poolVars, arg, ret, tableVars, mainVars, dl_path,
                 logVars,
                 keyVars, sceneVars, api_key, store, scratch, effects,
                 loginResp, ds, stats, dstats, scenes, existing_ids,
                 new_entity_ids, list_id, products, idx, exc, found, raisedScenes>>

ReleaseList ==
  \E resp \in RemoteResponses :
    ReleaseListAnswered(resp) /\ UNCHANGED remote_lists

\* --------------------------------------------------- run(): dataset loop

AfterDataset_Raise(d, result) ==
  IF result = "raised" THEN "raised"
  ELSE IF d < NumDatasets THEN "search" ELSE "exit"

AfterDataset_Again(d, result) == "search"

\* for dataset_name in datasets: next dataset, or leave the with block
AfterDataset(d, result) == IF d < NumDatasets THEN "search" ELSE "exit"

\* lines 161-170: merge dataset_stats, or except Exception: record the error
RunCollect ==
  /\ pc = "ds_end"
  /\ stats' = IF dsResult = "returned" THEN RunMerge(stats, dstats)
              ELSE RunExcept(stats, ds)
  /\ pc' = AfterDataset(ds, dsResult)
  /\ ds' = IF AfterDataset(ds, dsResult) = "search" THEN ds + 1 ELSE ds
  /\ dsResult' = "none"
  /\ dstats' = ZeroStats
  /\ scenes' = <<>>
  /\ existing_ids' = {}
  /\ new_entity_ids' = <<>>
  /\ list_id' = NoList
  /\ products' = FALSE
  /\ idx' = 0
  /\ calls' = <<>>
  /\ UNCHANGED <<envVars, poolVars, fnVars, logVars, keyVars, sceneVars, api_key, sent, store,
                 scratch, effects, loginResp, exc, propagating, found,
                 raisedScenes>>

LogoutSent_NoRequest(s, key) == s

\* M2MClient.logout: a request only when a key is held; never raises
LogoutSent(s, key) ==
  IF key = NoKey THEN s ELSE s \cup {"logout"}

LogoutOut_Reraise(key, resp) ==
  IF key # NoKey /\ resp = "transport" THEN "Error" ELSE "None"

\* M2MClient.logout: returns None at once without a key; otherwise the post
\* is inside try/except Exception (the response is not read), so whatever
\* the request does, logout() returns None
LogoutOut(key, resp) == "None"

\* M2MClient.logout: api_key afterwards (finally: self.api_key = None)
LogoutKey(key, resp) == NoKey

\* __exit__ -> logout(); then run() logs and returns stats
Logout ==
  /\ pc = "exit"
  /\ sent' = LogoutSent(sent, api_key)
  /\ api_key' = NoKey
  /\ pc' = "done"
  /\ UNCHANGED <<envVars, poolVars, fnVars, logVars, keyVars, sceneVars, store, scratch, effects,
                 loginResp, ds, dsResult, stats, dstats, scenes, existing_ids,
                 new_entity_ids, list_id, products, idx, exc, propagating,
                 calls, found, raisedScenes>>

\* the run ended by returning, every new scene processed successfully
CleanRun ==
  /\ ~dry_run
  /\ pc = "done"
  /\ stats.errors = <<>>
  /\ stats.failed_scenes = 0

\* main.handle_ingest again: a new BronzeIngestion and a new M2MClient over
\* the same database, remote and temp directory
NextRun ==
  /\ pc \in {"done", "raised"}
  /\ runNo < MaxRuns
  /\ runNo' = runNo + 1
  /\ prev' = IF CleanRun
               THEN [clean |-> TRUE,
                     found |-> found,
                     rows |-> Cardinality(store)]
               ELSE NoPrev
  /\ api_key' = NoKey
  /\ sent' = {}
  /\ effects' = {}
  /\ pc' = "start"
  /\ loginResp' = "none"
  /\ ds' = 0
  /\ stats' = ZeroStats
  /\ calls' = <<>>
  /\ found' = <<>>
  /\ raisedScenes' = {}
  /\ store0' = store
  /\ UNCHANGED <<dry_run, catalog, lastCall, sceneVars, keyVars, poolVars, fnVars, logVars, store,
                 scratch, dsResult, dstats, scenes, existing_ids,
                 new_entity_ids, list_id, products, idx, exc, propagating>>

Next ==
  \/ Login
  \/ SearchScenes
  \/ Deduplicate
  \/ AddScenesToList
  \/ GetDownloadOptions
  \/ RequestDownloads
  \/ DownloadFiles
  \/ FindMtlFile
  \/ InsertSceneMetadata
  \/ IngestBands
  \/ SceneSucceeded
  \/ SceneFailed
  \/ ReleaseList
  \/ RunCollect
  \/ Logout

Spec == Init /\ [][Next]_vars

\* run() when every remote call, database call and tool invocation returns
\* or fails: a step that can be taken is taken.  The catalogs followed hold
\* at most two scenes: a further scene repeats the steps of the second.
LiveScenes == Min(MaxScenes, 2)

InitLive ==
  /\ Init
  /\ Cardinality(CatalogIds(catalog)) <= LiveScenes

SpecLive == InitLive /\ [][Next]_vars /\ WF_vars(Next)

NextRerun == Next \/ NextRun

SpecRerun == Init /\ [][NextRerun]_vars


\* ---------------------------------------- M2MClient called by a caller

\* an M2MClient of a caller other than run(): no run in progress, nothing
\* in the store, no worker pool
Constructed ==
  /\ catalog = [d \in 1..NumDatasets |-> <<>>]
  /\ store = {}
  /\ store0 = {}
  /\ scratch = {}
  /\ runNo = 1
  /\ prev = NoPrev
  /\ lastCall = NoCall
  /\ RunStart
  /\ PoolIdle

InitClient ==
  /\ dry_run \in BOOLEAN
  /\ Constructed
  /\ FnIdle
  /\ LogIdle

DomainOps ==
  {"search_scenes", "add_scenes_to_list", "get_download_options",
   "request_downloads", "delete_list"}

ClientLists == {<<0, d>> : d \in 1..NumDatasets}

\* the call a caller made: operation, api_key held when it was made, what
\* the remote answered to its request ("none" when it sent none), what it
\* returned or raised, and whether it sent a request (reached: the endpoints
\* its requests reached)
Made(op, key, resp, out, reached) ==
  [op |-> op, key |-> key,
   resp |-> IF reached # {} THEN resp ELSE "none",
   out |-> out, requested |-> reached # {}]

ClientCall(op, l) ==
  /\ Len(calls) < MaxCalls
  /\ calls' = Append(calls, Call(op, 0, l, <<>>))

clientFrame ==
  <<dry_run, catalog, runNo, prev, store0, sceneVars, keyVars, poolVars, fnVars, logVars, store,
    scratch, effects, pc,
    loginResp, ds, dsResult, stats, dstats, scenes, existing_ids,
    new_entity_ids, list_id, products, idx, exc, propagating, found,
    raisedScenes>>

ClientLogin ==
  /\ ClientCall("login", NoList)
  /\ \E resp \in LoginResponses :
       /\ api_key' = LoginKey(api_key, resp)
       /\ sent' = sent \cup {"login-token"}
       /\ lastCall' = Made("login", api_key, resp, LoginOut(resp), {"login-token"})
  /\ UNCHANGED clientFrame

ClientLogout ==
  /\ ClientCall("logout", NoList)
  /\ \E resp \in RemoteResponses :
       /\ sent' = LogoutSent(sent, api_key)
       /\ api_key' = LogoutKey(api_key, resp)
       /\ lastCall' = Made("logout", api_key, resp, LogoutOut(api_key, resp),
                           LogoutSent({}, api_key))
  /\ UNCHANGED clientFrame

ClientSearchScenes ==
  /\ ClientCall("search_scenes", NoList)
  /\ \E resp \in RemoteResponses :
       /\ sent' = Sent(sent, api_key, "scene-search")
       /\ lastCall' = Made("search_scenes", api_key, resp, SendRequest(api_key, resp),
                           Sent({}, api_key, "scene-search"))
  /\ UNCHANGED <<clientFrame, api_key>>

ClientAddScenesToList ==
  \E l \in ClientLists, resp \in RemoteResponses :
    /\ ClientCall("add_scenes_to_list", l)
    /\ sent' = Sent(sent, api_key, "scene-list-add")
    /\ lastCall' = Made("add_scenes_to_list", api_key, resp,
                        SendRequest(api_key, resp),
                        Sent({}, api_key, "scene-list-add"))
    /\ UNCHANGED <<clientFrame, api_key>>

ClientGetDownloadOptions ==
  \E l \in ClientLists, resp \in RemoteResponses :
    /\ ClientCall("get_download_options", l)
    /\ sent' = Sent(sent, api_key, "download-options")
    /\ lastCall' = Made("get_download_options", api_key, resp,
                        SendRequest(api_key, resp),
                        Sent({}, api_key, "download-options"))
    /\ UNCHANGED <<clientFrame, api_key>>

ClientRequestDownloads ==
  /\ ClientCall("request_downloads", NoList)
  /\ \E resp \in RemoteResponses :
       /\ sent' = RequestDownloadsSent(sent, dry_run, api_key)
       /\ lastCall' = Made("request_downloads", api_key, resp,
                           RequestDownloadsOut(dry_run, api_key, resp),
                           RequestDownloadsSent({}, dry_run, api_key))
  /\ UNCHANGED <<clientFrame, api_key>>

ClientDeleteList ==
  \E l \in ClientLists, resp \in RemoteResponses :
    /\ ClientCall("delete_list", l)
    /\ sent' = DeleteListSent(sent, dry_run, api_key)
    /\ lastCall' = Made("delete_list", api_key, resp,
                        DeleteListOut(dry_run, api_key, resp),
                        DeleteListSent({}, dry_run, api_key))
    /\ UNCHANGED <<clientFrame, api_key>>

NextClient ==
  \/ ClientLogin
  \/ ClientLogout
  \/ ClientSearchScenes
  \/ ClientAddScenesToList
  \/ ClientGetDownloadOptions
  \/ ClientRequestDownloads
  \/ ClientDeleteList

SpecClient == InitClient /\ [][NextClient]_vars


\* ------------------------------ M2MClient.download_files_parallel

\* What happens to the GET of download_file:
\*   httpError  session.get or raise_for_status raises
\*   json       the response has a Content-Type containing application/json
\*   empty      the response has a zero-length body
\*   body       the response has a non-empty body, written to the file
\*   ioError    writing the file or reading the body raises
\*   raised     an exception leaves download_file (raised in its handler)
DownloadResponses == {"httpError", "json", "empty", "body", "ioError", "raised"}

NoPath == 0
\* filepath = output_dir / filename, for the file of item i: the products of
\* one scene have file names of their own
PathOf(i) == i

\* dry run: output_dir / "<entity>_SR_B4.tif", the same for every item, and
\* never written
DummyPath == MaxFiles + 1

\* _process_scene: download_urls, one per available download, all of them
\* with the entity id of the scene
DownloadUrls(e, n) == [i \in 1..n |-> [url |-> i, entityId |-> e]]

\* what a download_file call did: the response it got ("none" when it sent
\* no request), whether it raised, and the tuple it returned
Returned(resp, ok, path, err, timed) ==
  [resp |-> resp, raised |-> FALSE, success |-> ok, filepath |-> path,
   error |-> err, timed |-> timed]

NoOut == Returned("none", FALSE, NoPath, FALSE, FALSE)

DownloadFile_EmptyOk(dry, resp, path) ==
  IF dry THEN Returned("none", TRUE, DummyPath, FALSE, TRUE)
  ELSE CASE resp = "raised" -> [NoOut EXCEPT !.resp = resp, !.raised = TRUE]
         [] resp \in {"body", "empty"} -> Returned(resp, TRUE, path, FALSE, TRUE)
         [] resp = "json" -> Returned(resp, FALSE, NoPath, TRUE, FALSE)
         [] OTHER -> Returned(resp, FALSE, NoPath, TRUE, TRUE)

\* download_file: (success, filepath, error, url, duration)
DownloadFile(dry, resp, path) ==
  IF dry THEN Returned("none", TRUE, DummyPath, FALSE, TRUE)
  ELSE CASE resp = "raised" -> [NoOut EXCEPT !.resp = resp, !.raised = TRUE]
         [] resp = "body" -> Returned(resp, TRUE, path, FALSE, TRUE)
         [] resp \in {"json", "empty"} -> Returned(resp, FALSE, NoPath, TRUE, FALSE)
         [] OTHER -> Returned(resp, FALSE, NoPath, TRUE, TRUE)

DiskAfter_JsonKept(d, dry, resp, path, partial) ==
  IF dry THEN d
  ELSE CASE resp = "body" -> d \cup {path}
         [] resp = "empty" -> d \ {path}
         [] resp \in {"ioError", "raised"} -> IF partial THEN d \cup {path} ELSE d
         [] OTHER -> d

\* download_file: the files of the scene directory afterwards.  json: the
\* file is unlinked if it exists; empty: the file is created, then unlinked;
\* ioError, raised: a partly written file may stay (partial)
DiskAfter(d, dry, resp, path, partial) ==
  IF dry THEN d
  ELSE CASE resp = "body" -> d \cup {path}
         [] resp \in {"json", "empty"} -> d \ {path}
         [] resp \in {"ioError", "raised"} -> IF partial THEN d \cup {path} ELSE d
         [] OTHER -> d

\* the loop over as_completed: the tuple appended for a future, the failed
\* tuple of the except branch when future.result() raised
FutureResult(item, out) ==
  IF out.raised
    THEN [entity_id |-> item.entityId, url |-> item.url, success |-> FALSE,
          filepath |-> NoPath, error |-> TRUE, timed |-> FALSE]
    ELSE [entity_id |-> item.entityId, url |-> item.url, success |-> out.success,
          filepath |-> out.filepath, error |-> out.error, timed |-> out.timed]

AppendResult_DropFailed(rs, r) == IF r.success THEN Append(rs, r) ELSE rs

\* results.append(...)
AppendResult(rs, r) == Append(rs, r)

Running == {i \in DOMAIN futures : futures[i] = "running"}

CanStart_Unbounded(running, workers) == TRUE

\* ThreadPoolExecutor(max_workers): a queued call starts when fewer than
\* max_workers calls are running
CanStart(running, workers) == Cardinality(running) < workers

downloadFrame_base ==
  <<envVars, sceneVars, keyVars, api_key, sent, store, scratch, effects, pc,
    loginResp, ds, dsResult, stats, dstats, scenes, existing_ids,
    new_entity_ids, list_id, products, idx, exc, propagating, calls, found,
    raisedScenes>>

downloadFrame == <<downloadFrame_base, fnVars, logVars>>

\* _process_scene lines 299-311: download_files_parallel(download_urls,
\* scene_dir, max_workers=int(env.get('MAX_CONCURRENT_DOWNLOADS', 5))), the
\* scene directory holding the files (stale) an earlier attempt left
BeginDownload ==
  /\ dl_pc = "idle"
  /\ \E e \in EntityIds, n \in 1..MaxFiles,
        w \in (1..MaxWorkers) \cup {DefaultWorkers},
        stale \in SUBSET {PathOf(i) : i \in 1..MaxFiles} :
       /\ dl_scene' = e
       /\ dl_items' = DownloadUrls(e, n)
       /\ max_workers' = w
       /\ futures' = [i \in 1..n |-> "unsubmitted"]
       /\ dl_out' = [i \in 1..n |-> NoOut]
       /\ disk' = stale
  /\ dl_results' = <<>>
  /\ dl_pc' = "submit"
  /\ UNCHANGED downloadFrame

\* executor.submit(self.download_file, ...) for the next item
SubmitTask ==
  /\ dl_pc = "submit"
  /\ LET i == CHOOSE j \in DOMAIN futures :
                /\ futures[j] = "unsubmitted"
                /\ \A k \in 1..(j - 1) : futures[k] # "unsubmitted"
     IN  /\ futures' = [futures EXCEPT ![i] = "pending"]
         /\ dl_pc' = IF i = Len(dl_items) THEN "collect" ELSE "submit"
  /\ UNCHANGED <<downloadFrame, dl_scene, dl_items, max_workers, dl_out,
                 dl_results, disk>>

\* a worker thread takes a queued call
StartTask ==
  /\ \E i \in DOMAIN futures :
       /\ futures[i] = "pending"
       /\ CanStart(Running, max_workers)
       /\ futures' = [futures EXCEPT ![i] = "running"]
  /\ UNCHANGED <<downloadFrame, dl_pc, dl_scene, dl_items, max_workers,
                 dl_out, dl_results, disk>>

\* a download_file call ends
FinishTaskAs(i, resp, partial, path) ==
  /\ futures[i] = "running"
  /\ dl_out' = [dl_out EXCEPT ![i] = DownloadFile(dry_run, resp, path)]
  /\ disk' = DiskAfter(disk, dry_run, resp, path, partial)
  /\ futures' = [futures EXCEPT ![i] = "done"]
  /\ UNCHANGED <<downloadFrame, dl_pc, dl_scene, dl_items, max_workers,
                 dl_results>>

FinishTask ==
  \E i \in DOMAIN futures, resp \in DownloadResponses, partial \in BOOLEAN :
    FinishTaskAs(i, resp, partial, PathOf(i))

\* for future in as_completed(futures): one finished future, in any order
CollectResult ==
  /\ dl_pc = "collect"
  /\ \E i \in DOMAIN futures :
       /\ futures[i] = "done"
       /\ dl_results' = AppendResult(dl_results, FutureResult(dl_items[i], dl_out[i]))
       /\ futures' = [futures EXCEPT ![i] = "collected"]
  /\ UNCHANGED <<downloadFrame, dl_pc, dl_scene, dl_items, max_workers,
                 dl_out, disk>>

Exhausted_FirstResult(f) == \E i \in DOMAIN f : f[i] = "collected"

\* as_completed(futures) has yielded every future, each when it was done
Exhausted(f) == \A i \in DOMAIN f : f[i] = "collected"

\* as_completed is exhausted, the executor is shut down, return results
ReturnResults ==
  /\ dl_pc = "collect"
  /\ Exhausted(futures)
  /\ dl_pc' = "returned"
  /\ UNCHANGED <<downloadFrame, dl_scene, dl_items, max_workers, futures,
                 dl_out, dl_results, disk>>

NextDownload ==
  \/ BeginDownload
  \/ SubmitTask
  \/ StartTask
  \/ FinishTask
  \/ CollectResult
  \/ ReturnResults

SpecDownload == InitClient /\ [][NextDownload]_vars


\* ------------------------------------------- functions of their arguments

\* SpecFn applies one function to arguments drawn in the initial state.
\* Texts are sequences of tokens; the empty text and None are both <<>>
\* (both are false in `if not filename`).

Returns(v) == [done |-> TRUE, raised |-> FALSE, value |-> v]

fnFrame ==
  <<downloadFrame_base, poolVars, logVars, tableVars, mainVars, remote_lists,
    dl_path, arg>>

\* ---- download_file: the local file name

\* Tokens of a Content-Disposition header: the parameter name with its '=',
\* a double quote, and two runs of other characters
HeaderTokens == {"filename=", "quote", "download", "a.TIF"}
Headers == UNION {[1..n -> HeaderTokens] : n \in 0..MaxHeaderLen}

\* Path(unquote(urlparse(url).path)).name of the download URLs tried
UrlBasenames == {<<>>, <<"download">>, <<"b.TIF">>}

\* re.search(r'filename="?([^"]+)"?', h) matches at p: the literal, an
\* optional quote, then at least one character that is not a quote
NameStart(h, p) ==
  IF p + 1 <= Len(h) /\ h[p + 1] = "quote" THEN p + 2 ELSE p + 1

MatchesAt(h, p) ==
  /\ h[p] = "filename="
  /\ NameStart(h, p) <= Len(h)
  /\ h[NameStart(h, p)] # "quote"

\* the end of the greedy [^"]+ that starts at q
NameEnd(h, q) ==
  CHOOSE r \in q..Len(h) :
    /\ \A k \in q..r : h[k] # "quote"
    /\ r = Len(h) \/ h[r + 1] = "quote"

\* fname_match.group(1) of the leftmost match, <<>> without a match or
\* without a header
HeaderFilename(h) ==
  LET ps == {p \in 1..Len(h) : MatchesAt(h, p)}
  IN  IF ps = {} THEN <<>>
      ELSE LET p == CHOOSE x \in ps : \A y \in ps : x <= y
           IN  SubSeq(h, NameStart(h, p), NameEnd(h, NameStart(h, p)))

\* f"unknown_file_{entity_id}_{int(time.time())}.dat"
FallbackFilename(e) == <<"unknown_file_", e, ".dat">>

\* download_file lines 487-508: filename
ResolveFilename(h, u, e) ==
  LET fromHeader == HeaderFilename(h)
      filename == IF fromHeader = <<>> THEN u ELSE fromHeader
  IN  IF filename = <<>> \/ filename = <<"download">>
        THEN FallbackFilename(e)
        ELSE filename

FilenameArgs ==
  {[fn |-> "filename", header |-> h, url |-> u, entity |-> "LC08E1"] :
     h \in Headers, u \in UrlBasenames}

ApplyResolveFilename ==
  /\ arg.fn = "filename"
  /\ ~ret.done
  /\ ret' = Returns(ResolveFilename(arg.header, arg.url, arg.entity))
  /\ UNCHANGED fnFrame

\* ---- _extract_band_name and the loop body over download_results

\* A file name is the sequence of its '_'-separated tokens (filename.split),
\* a token the sequence of its '.'-separated pieces (token.split)
Stems == {"SR", "ST", "QA", "B3", "MTL", "mtl", ""}
NameTokens ==
  {<<x>> : x \in Stems} \cup {<<x, "TIF">> : x \in {"SR", "B3", "MTL"}}
FileNames == UNION {[1..n -> NameTokens] : n \in 1..MaxTokens}

\* 'MTL' in filename.upper()
ContainsMtl(f) ==
  \E i \in 1..Len(f) : \E k \in 1..Len(f[i]) : f[i][k] \in {"MTL", "mtl"}

ExtractBandName_AnyCase(f) ==
  LET hits == {i \in 1..(Len(f) - 1) :
                 f[i] \in {<<"SR">>, <<"ST">>, <<"QA">>, <<"mtl">>}}
  IN  IF hits # {}
        THEN LET i == CHOOSE x \in hits : \A y \in hits : x <= y
             IN  <<f[i][1], f[i + 1][1]>>
        ELSE IF ContainsMtl(f) THEN <<"MTL">> ELSE <<>>

\* _extract_band_name: <<part, next>> for f"{part}_{next}", <<"MTL">>, or
\* <<>> for None.  The loop returns at the first token in SR, ST, QA that
\* has a token after it.
ExtractBandName(f) ==
  LET hits == {i \in 1..(Len(f) - 1) : f[i] \in {<<"SR">>, <<"ST">>, <<"QA">>}}
  IN  IF hits # {}
        THEN LET i == CHOOSE x \in hits : \A y \in hits : x <= y
             IN  <<f[i][1], f[i + 1][1]>>
        ELSE IF ContainsMtl(f) THEN <<"MTL">> ELSE <<>>

LogDecision_TransferOnly(success, f) ==
  LET band == IF f # <<>> THEN ExtractBandName(f) ELSE <<>>
  IN  IF success /\ f # <<>>
        THEN [status |-> "success", band |-> band, kept |-> TRUE]
        ELSE [status |-> "failed",
              band |-> IF band # <<>> THEN band ELSE <<"UNKNOWN_BAND">>,
              kept |-> FALSE]

\* _process_scene lines 316-328, for one result (success_dl, filepath_dl.name
\* or <<>> for None): the status and band name of the download_log row, and
\* whether the file is appended to successfully_downloaded_tifs
LogDecision(success, f) ==
  LET band == IF f # <<>> THEN ExtractBandName(f) ELSE <<>>
  IN  IF success /\ f # <<>> /\ band # <<>>
        THEN [status |-> "success", band |-> band, kept |-> TRUE]
        ELSE [status |-> "failed",
              band |-> IF band # <<>> THEN band ELSE <<"UNKNOWN_BAND">>,
              kept |-> FALSE]

\* the results download_file produces: a failed one has no file path
BandArgs ==
  {[fn |-> "band", success |-> TRUE, filename |-> f] : f \in FileNames}
    \cup {[fn |-> "band", success |-> FALSE, filename |-> <<>>]}

ApplyLogDecision ==
  /\ arg.fn = "band"
  /\ ~ret.done
  /\ ret' = Returns(LogDecision(arg.success, arg.filename))
  /\ UNCHANGED fnFrame

\* ---- _create_session: the retries of one session.get or session.post

\* What one attempt of a request meets: a network-level failure (connect or
\* read error, timeout), or a response, named by its status code; "413+RA"
\* is a 413 response carrying a Retry-After header
Answers ==
  {"netfail", "200", "404", "413", "413+RA", "429", "500", "502", "503", "504"}

\* status_forcelist=[429, 500, 502, 503, 504]
StatusForcelist == {"429", "500", "502", "503", "504"}

\* Retry.is_retry for the allowed methods GET and POST: a status of the
\* forcelist, or, respect_retry_after_header being left at its default, a
\* 413, 429 or 503 response with a Retry-After header while total is not 0
IsRetry(a, left) ==
  \/ a \in StatusForcelist
  \/ a = "413+RA" /\ left > 0

\* the adapter's loop for one call: attempt k meets answers[k] with `left`
\* retries left; [attempts, out] where out is the response returned, or
\* "raised" when the retries are exhausted (ConnectionError, RetryError)
RECURSIVE SessionSend(_, _, _)
SessionSend(answers, k, left) ==
  IF answers[k] = "netfail" \/ IsRetry(answers[k], left)
    THEN IF left > 0
           THEN SessionSend(answers, k + 1, left - 1)
           ELSE [attempts |-> k, out |-> "raised"]
    ELSE [attempts |-> k, out |-> answers[k]]

\* Retry(total=max_retries): what each of the max_retries + 1 possible
\* attempts would meet
RetryArgs ==
  UNION {{[fn |-> "send", max_retries |-> n, answers |-> a] :
            a \in [1..(n + 1) -> Answers]} : n \in 0..MaxRetries}

ApplySessionSend ==
  /\ arg.fn = "send"
  /\ ~ret.done
  /\ ret' = Returns(SessionSend(arg.answers, 1, arg.max_retries))
  /\ UNCHANGED fnFrame

\* ---- MTLParser._detect_format

Raised(e) == [done |-> TRUE, raised |-> TRUE, value |-> e]

\* A stripped line is the sequence of its tokens, the blank line <<>>
LineTokens == {"GROUP", "=", "<?xml", "<", "w"}
Lines == {<<>>} \cup {<<a>> : a \in LineTokens}
           \cup {<<a, "=">> : a \in LineTokens}
Suffixes == {".txt", ".xml", ".dat"}

\* first_line.startswith('GROUP') or '=' in first_line
LooksTxt(line) ==
  \/ line # <<>> /\ line[1] = "GROUP"
  \/ \E k \in 1..Len(line) : line[k] = "="

\* first_line.startswith('<?xml') or first_line.startswith('<')
LooksXml(line) == line # <<>> /\ line[1] \in {"<?xml", "<"}

\* _detect_format: the suffix decides; otherwise readline().strip(), the
\* first line of the file ('' for an empty file), tested for the text
\* grammar first
DetectFormat(suffix, lines) ==
  CASE suffix = ".txt" -> Returns("txt")
    [] suffix = ".xml" -> Returns("xml")
    [] OTHER ->
         LET first_line == IF lines = <<>> THEN <<>> ELSE lines[1]
         IN  IF LooksTxt(first_line) THEN Returns("txt")
             ELSE IF LooksXml(first_line) THEN Returns("xml")
             ELSE Raised("ValueError")

FormatArgs ==
  {[fn |-> "format", suffix |-> x, lines |-> l] :
     x \in Suffixes, l \in UNION {[1..n -> Lines] : n \in 0..MaxLines}}

ApplyDetectFormat ==
  /\ arg.fn = "format"
  /\ ~ret.done
  /\ ret' = DetectFormat(arg.suffix, arg.lines)
  /\ UNCHANGED fnFrame

\* ---- MTLParser._parse_txt and MTLParser._parse_xml

\* A metadata document is a sequence of items: the opening of a group, the
\* end of a group, and a leaf with its value.  In the text grammar the items
\* are the lines GROUP = name, END_GROUP = name and KEY = value; in the
\* markup grammar they are <name>, </name> and <KEY>value</KEY>.
OpenItem(n) == [t |-> "group", name |-> n, value |-> ""]
EndItem == [t |-> "end", name |-> "", value |-> ""]
LeafItem(k, v) == [t |-> "kv", name |-> k, value |-> v]

DocItems ==
  {OpenItem("A"), OpenItem("B"), EndItem, LeafItem("K", "1"), LeafItem("K", "2")}
Docs == UNION {[1..n -> DocItems] : n \in 1..MaxDocLen}

\* metadata[key] = value; a key is the sequence of the names joined by '.'
Put(md, key, value) == {p \in md : p[1] # key} \cup {<<key, value>>}

\* _parse_txt: current_group is the name of the last GROUP line read (<<>>
\* for None); END_GROUP lines are skipped
RECURSIVE ParseTxtFrom(_, _, _, _)
ParseTxtFrom(lines, i, current_group, md) ==
  IF i > Len(lines) THEN md
  ELSE CASE lines[i].t = "end" ->
              ParseTxtFrom(lines, i + 1, current_group, md)
         [] lines[i].t = "group" ->
              ParseTxtFrom(lines, i + 1, <<lines[i].name>>, md)
         [] OTHER ->
              ParseTxtFrom(lines, i + 1, current_group,
                           Put(md, current_group \o <<lines[i].name>>, lines[i].value))

ParseTxt(lines) == ParseTxtFrom(lines, 1, <<>>, {})

\* number of groups open after the first i items
Depth(doc, i) ==
  Cardinality({k \in 1..i : doc[k].t = "group"})
    - Cardinality({k \in 1..i : doc[k].t = "end"})

\* one root group that holds everything, every group closed
WellFormed(doc) ==
  /\ Len(doc) >= 2
  /\ doc[1].t = "group"
  /\ \A i \in 1..(Len(doc) - 1) : Depth(doc, i) > 0
  /\ Depth(doc, Len(doc)) = 0

\* _parse_xml, parse_element(root): prefix is the path of tags below the
\* root; an element without children is a leaf (text None when it is empty)
RECURSIVE ParseXmlFrom(_, _, _, _)
ParseXmlFrom(doc, i, prefix, md) ==
  IF i > Len(doc) THEN md
  ELSE CASE doc[i].t = "end" ->
              IF prefix = <<>> THEN md
              ELSE ParseXmlFrom(doc, i + 1, SubSeq(prefix, 1, Len(prefix) - 1), md)
         [] doc[i].t = "group" ->
              IF doc[i + 1].t = "end"
                THEN ParseXmlFrom(doc, i + 2, prefix,
                                  Put(md, prefix \o <<doc[i].name>>, "None"))
                ELSE ParseXmlFrom(doc, i + 1, prefix \o <<doc[i].name>>, md)
         [] OTHER ->
              ParseXmlFrom(doc, i + 1, prefix,
                           Put(md, prefix \o <<doc[i].name>>, doc[i].value))

ParseXml(doc) == ParseXmlFrom(doc, 2, <<>>, {})

\* parse() of the document written in both grammars; the markup file exists
\* only for a well-formed document
ParseArgs == {[fn |-> "parse", doc |-> d] : d \in Docs}

ApplyParse ==
  /\ arg.fn = "parse"
  /\ ~ret.done
  /\ ret' = Returns([txt |-> ParseTxt(arg.doc),
                     xml |-> IF WellFormed(arg.doc) THEN ParseXml(arg.doc) ELSE {}])
  /\ UNCHANGED fnFrame

\* ---- get_scene_metadata: the footprint polygon

\* the eight corner fields in the order the code reads them into the ring
CornerFields ==
  <<"CORNER_UL_LON_PRODUCT", "CORNER_UL_LAT_PRODUCT",
    "CORNER_UR_LON_PRODUCT", "CORNER_UR_LAT_PRODUCT",
    "CORNER_LR_LON_PRODUCT", "CORNER_LR_LAT_PRODUCT",
    "CORNER_LL_LON_PRODUCT", "CORNER_LL_LAT_PRODUCT">>

\* a scene's corner coordinates in hundredths of a degree:
\* UL=(-68.00,10.33) UR=(-67.49,10.33) LR=(-67.50,9.99) LL=(-68.01,9.99)
Nominal == <<0 - 6800, 1033, 0 - 6749, 1033, 0 - 6750, 999, 0 - 6801, 999>>

\* the candidate keys of one corner field, in the order get_nested tries them
CornerGroups == <<"PROJECTION_ATTRIBUTES", "PRODUCT_METADATA">>

\* None, and a number read from the file
None == [has |-> FALSE, v |-> 0]

Num(n) == [has |-> TRUE, v |-> n]

\* what a corner field of a file can hold: no such line, zero (a scene on the
\* equator or on the Greenwich meridian), or the scene's own coordinate
CoordChoices == {"absent", "zero", "nominal"}

\* where a file stores its corner fields: under the first candidate group,
\* under the second, or under both with a stale value in the second
Layouts == {"first", "second", "both"}

StaleCoord == 1

\* self.metadata restricted to the corner keys of the file (layout, coords)
CornerMetadata(layout, coords) ==
  LET Value(i) == IF coords[i] = "zero" THEN Num(0) ELSE Num(Nominal[i])
      Here(g) == \/ layout = "both"
                 \/ (layout = "first" /\ g = 1)
                 \/ (layout = "second" /\ g = 2)
  IN  [k \in (1..Len(CornerGroups)) \X (1..Len(CornerFields)) |->
         IF coords[k[2]] = "absent" \/ ~Here(k[1]) THEN None
         ELSE IF layout = "both" /\ k[1] = 2 THEN Num(StaleCoord)
         ELSE Value(k[2])]

\* get_nested: the value under the first candidate key that is present
RECURSIVE GetNested(_, _, _)
GetNested(md, field, g) ==
  IF g > Len(CornerGroups) THEN None
  ELSE IF md[<<g, field>>].has THEN md[<<g, field>>]
  ELSE GetNested(md, field, g + 1)

\* Python's truth value of a looked-up coordinate
Truthy(x) == x.has /\ x.v # 0

NoFootprint == [null |-> TRUE, ring |-> <<>>]

\* footprint_wkt: POLYGON((ul, ur, lr, ll, ul)), each point "lon lat"
Footprint(md) ==
  LET c == [i \in 1..Len(CornerFields) |-> GetNested(md, i, 1)]
      Point(n) == <<c[2 * n - 1].v, c[2 * n].v>>
  IN  IF \A i \in 1..Len(CornerFields) : Truthy(c[i])
      THEN [null |-> FALSE,
            ring |-> <<Point(1), Point(2), Point(3), Point(4), Point(1)>>]
      ELSE NoFootprint

FootprintArgs ==
  {[fn |-> "footprint", layout |-> l, coords |-> cs] :
     l \in Layouts, cs \in [1..Len(CornerFields) -> CoordChoices]}

ApplyFootprint ==
  /\ arg.fn = "footprint"
  /\ ~ret.done
  /\ ret' = Returns(Footprint(CornerMetadata(arg.layout, arg.coords)))
  /\ UNCHANGED fnFrame

FnArgs ==
  FilenameArgs \cup BandArgs \cup RetryArgs \cup FormatArgs \cup ParseArgs
    \cup FootprintArgs

InitFn ==
  /\ dry_run = FALSE
  /\ Constructed
  /\ LogIdle
  /\ arg \in FnArgs
  /\ ret = NoRet
  /\ TableIdle
  /\ MainIdle
  /\ remote_lists = {}
  /\ dl_path = [i \in 1..MaxFiles |-> 0]

NextFn ==
  \/ ApplyResolveFilename
  \/ ApplyLogDecision
  \/ ApplySessionSend
  \/ ApplyDetectFormat
  \/ ApplyParse
  \/ ApplyFootprint

SpecFn == InitFn /\ [][NextFn]_vars


\* ---------------------------------- _process_scene, download by download

\* SpecScene follows one non-mocked _process_scene(client, SceneEntity, ...)
\* through the loop over download_results and the ingestion of each file.

SceneEntity == 1

\* the files of the scene that filter_bands can keep: two spectral bands,
\* the metadata file and a file with no band name
SceneFiles ==
  { << <<"LC08">>, <<"SR">>, <<"B3", "TIF">> >>,
    << <<"LC08">>, <<"SR">>, <<"B6", "TIF">> >>,
    << <<"LC08">>, <<"MTL", "txt">> >>,
    << <<"LC08">>, <<"ANG", "txt">> >> }

\* dry run: download_file returns <entity>_SR_B4.tif for every url
DummyFileName == << <<"LC08">>, <<"SR">>, <<"B4", "tif">> >>

\* the orders in which the downloads of the files in S can complete
Orders(S) ==
  {q \in [1..Cardinality(S) -> S] : \A i, j \in 1..Cardinality(S) : q[i] = q[j] => i = j}

\* a tuple of download_results; the url stands for the file it points to
DownloadResult(f, ok, dry) ==
  [entity_id |-> SceneEntity, url |-> f,
   success |-> dry \/ ok,
   filename |-> IF dry THEN DummyFileName ELSE IF ok THEN f ELSE <<>>]

LogRow_AlwaysSuccess(r, d) ==
  [entity_id |-> r.entity_id, band_name |-> d.band,
   download_status |-> "success", download_url |-> r.url]

\* a row of bronze.download_log
LogRow(r, d) ==
  [entity_id |-> r.entity_id, band_name |-> d.band,
   download_status |-> d.status, download_url |-> r.url]

\* a row left by an earlier run
OldLogRow ==
  [entity_id |-> SceneEntity, band_name |-> <<"SR", "B3">>,
   download_status |-> "failed",
   download_url |-> << <<"LC08">>, <<"SR">>, <<"B3", "TIF">> >>]

\* _find_mtl_file: the name matches *MTL.txt, *MTL.xml or *_MTL*
GlobMtl(f) ==
  \E i \in 1..Len(f) :
    /\ f[i][1] = "MTL"
    /\ \/ i > 1
       \/ i = Len(f) /\ Len(f[i]) = 2 /\ f[i][2] \in {"txt", "xml"}

\* _ingest_bands_to_postgis: the entries it hands to _ingest_single_band
\* (metadata files are skipped)
IsRaster(f, band) ==
  /\ f[Len(f)][Len(f[Len(f)])] \notin {"txt", "xml"}
  /\ band # <<"MTL">>

sceneFrame ==
  <<envVars, sceneVars, keyVars, poolVars, fnVars, api_key, sent, scratch,
    effects, pc, loginResp, ds, dsResult, stats, dstats, scenes,
    existing_ids, new_entity_ids, list_id, products, idx, exc, propagating,
    calls, found, raisedScenes>>

InitScene ==
  /\ dry_run \in BOOLEAN
  /\ Constructed
  /\ FnIdle
  /\ sc_pc = "idle"
  /\ requested = {}
  /\ download_results = <<>>
  /\ sc_pos = 0
  /\ successfully_downloaded_tifs = <<>>
  /\ download_log \in {<<>>, <<OldLogRow>>}
  /\ band_rows = {}

\* _process_scene lines 281-311: filter_bands, request_downloads,
\* availableDownloads, download_files_parallel
BeginScene ==
  /\ sc_pc = "idle"
  /\ \E req \in SUBSET SceneFiles :
       /\ Cardinality(req) <= MaxFiles
       /\ requested' = req
       /\ \E avail \in SUBSET req :
            IF avail = {}
              THEN \* ValueError: no bands, or no downloads, available
                   /\ sc_pc' = "raised"
                   /\ UNCHANGED <<download_results, sc_pos>>
              ELSE \E order \in Orders(avail), oks \in SUBSET avail :
                     /\ download_results' =
                          [k \in 1..Cardinality(avail) |->
                             DownloadResult(order[k], order[k] \in oks, dry_run)]
                     /\ sc_pos' = 1
                     /\ sc_pc' = "log"
  /\ UNCHANGED <<sceneFrame, store, successfully_downloaded_tifs,
                 download_log, band_rows>>

\* _process_scene lines 316-328, one iteration: _log_download_success or
\* _log_download_failure (no row in dry-run; the INSERT can raise)
LogResult ==
  /\ sc_pc = "log"
  /\ LET r == download_results[sc_pos]
         d == LogDecision(r.success, r.filename)
     IN  \E dbOk \in BOOLEAN :
           IF (dry_run /\ d.status = "failed") \/ (~dry_run /\ ~dbOk)
             THEN /\ sc_pc' = "raised"
                  /\ UNCHANGED <<sc_pos, successfully_downloaded_tifs, download_log>>
             ELSE /\ download_log' = IF dry_run THEN download_log
                                     ELSE Append(download_log, LogRow(r, d))
                  /\ successfully_downloaded_tifs' =
                       IF d.kept
                         THEN Append(successfully_downloaded_tifs,
                                     [file |-> r.filename, band |-> d.band])
                         ELSE successfully_downloaded_tifs
                  /\ sc_pos' = sc_pos + 1
                  /\ sc_pc' = IF sc_pos = Len(download_results) THEN "check" ELSE "log"
  /\ UNCHANGED <<sceneFrame, store, requested, download_results, band_rows>>

\* _process_scene lines 330-336: nothing downloaded, or no metadata file
CheckDownloads ==
  /\ sc_pc = "check"
  /\ sc_pc' =
       IF successfully_downloaded_tifs = <<>> THEN "raised"
       ELSE IF dry_run THEN "insert"
       ELSE IF \E k \in 1..Len(download_results) :
                 /\ download_results[k].success
                 /\ GlobMtl(download_results[k].filename)
              THEN "insert"
              ELSE "raised"
  /\ UNCHANGED <<sceneFrame, store, requested, download_results, sc_pos,
                 successfully_downloaded_tifs, download_log, band_rows>>

\* _process_scene line 338: _insert_scene_metadata
RegisterScene ==
  /\ sc_pc = "insert"
  /\ IF dry_run
       THEN sc_pc' = "ingest" /\ store' = store
       ELSE \E o \in {"parseError", "dbError", "entityId", "productId"} :
              IF o \in {"parseError", "dbError"}
                THEN sc_pc' = "raised" /\ store' = store
                ELSE /\ store' = UpsertScene(store, MtlEntityId(SceneEntity, o))
                     /\ sc_pc' = "ingest"
  /\ UNCHANGED <<sceneFrame, requested, download_results, sc_pos,
                 successfully_downloaded_tifs, download_log, band_rows>>

\* _process_scene line 340: _ingest_bands_to_postgis; the exception of a
\* band that fails to ingest is caught and logged to the logger only
IngestSceneBands ==
  /\ sc_pc = "ingest"
  /\ IF dry_run
       THEN sc_pc' = "returned" /\ band_rows' = band_rows
       ELSE LET rasters == {successfully_downloaded_tifs[k].file :
                              k \in {j \in 1..Len(successfully_downloaded_tifs) :
                                       IsRaster(successfully_downloaded_tifs[j].file,
                                                successfully_downloaded_tifs[j].band)}}
            IN  \E yearOk \in BOOLEAN, ok \in SUBSET rasters :
                  IF ~yearOk
                    THEN sc_pc' = "raised" /\ band_rows' = band_rows
                    ELSE sc_pc' = "returned" /\ band_rows' = ok
  /\ UNCHANGED <<sceneFrame, store, requested, download_results, sc_pos,
                 successfully_downloaded_tifs, download_log>>

NextScene ==
  \/ BeginScene
  \/ LogResult
  \/ CheckDownloads
  \/ RegisterScene
  \/ IngestSceneBands

SpecScene == InitScene /\ [][NextScene]_vars


\* --------------------------- _insert_scene_metadata, statement by statement

\* SpecRegister registers metadata files one after the other in a store that
\* starts empty, so that a second file of the same entity meets its row.

MaxRegistrations == 3

RegEntities == {1, 2}

\* columns of bronze.landsat_scenes that the INSERT lists, besides entity_id
\* and the three that ON CONFLICT updates
OtherColumns ==
  {"display_id", "dataset_name", "sensor", "satellite", "acquisition_date",
   "path_row", "processing_level", "footprint"}

\* two editions of the metadata file of an entity differ in every column
Editions == {1, 2}

\* get_scene_metadata() plus metadata['dataset_name'] = dataset_name
SceneMetadata ==
  {[entity_id |-> e, cloud_cover |-> c, sun_azimuth |-> a, sun_elevation |-> s,
    other |-> [col \in OtherColumns |-> o]] :
     e \in RegEntities, c \in Editions, a \in Editions, s \in Editions,
     o \in Editions}

\* VALUES (...): the row the statement proposes, with scene_id from the
\* sequence of the column
Proposed(md, key) ==
  [scene_id |-> key, entity_id |-> md.entity_id, cloud_cover |-> md.cloud_cover,
   sun_azimuth |-> md.sun_azimuth, sun_elevation |-> md.sun_elevation,
   other |-> md.other]

OnConflictSet_AllColumns(old, excluded) ==
  [excluded EXCEPT !.scene_id = old.scene_id]

\* ON CONFLICT (entity_id) DO UPDATE SET cloud_cover = EXCLUDED.cloud_cover,
\* sun_azimuth = EXCLUDED.sun_azimuth, sun_elevation = EXCLUDED.sun_elevation
OnConflictSet(old, excluded) ==
  [old EXCEPT !.cloud_cover = excluded.cloud_cover,
              !.sun_azimuth = excluded.sun_azimuth,
              !.sun_elevation = excluded.sun_elevation]

\* the row of the table that the statement inserted or updated
UpsertRow(rows, excluded) ==
  LET same == {r \in rows : r.entity_id = excluded.entity_id}
  IN  IF same = {} THEN excluded
      ELSE OnConflictSet(CHOOSE r \in same : TRUE, excluded)

\* the table after the statement
UpsertTable(rows, excluded) ==
  {r \in rows : r.entity_id # excluded.entity_id} \cup {UpsertRow(rows, excluded)}

registerFrame ==
  <<envVars, sceneVars, keyVars, poolVars, logVars, mainVars, remote_lists,
    dl_path, api_key, sent, scratch,
    effects, pc, loginResp, ds, dsResult, stats, dstats, scenes,
    existing_ids, new_entity_ids, list_id, products, idx, exc, propagating,
    calls, found, raisedScenes>>

InitRegister ==
  /\ dry_run \in BOOLEAN
  /\ Constructed
  /\ FnIdle
  /\ LogIdle

\* _insert_scene_metadata(mtl_file, dataset_name): dry run returns 0 without
\* a statement; else the statement runs and is committed, or raises. The
\* sequence of scene_id advances whenever the statement proposes a row.
InsertSceneRow ==
  /\ scene_id_seq < MaxRegistrations
  /\ \E md \in SceneMetadata, o \in {"ok", "dbError"} :
       /\ arg' = [fn |-> "register", md |-> md]
       /\ IF dry_run
            THEN /\ ret' = Returns(0)
                 /\ UNCHANGED <<landsat_scenes, scene_id_seq, store>>
            ELSE IF o = "dbError"
            THEN /\ ret' = Raised(0)
                 /\ UNCHANGED <<landsat_scenes, scene_id_seq, store>>
            ELSE LET excluded == Proposed(md, scene_id_seq + 1)
                 IN  /\ scene_id_seq' = scene_id_seq + 1
                     /\ landsat_scenes' = UpsertTable(landsat_scenes, excluded)
                     /\ store' = UpsertScene(store, md.entity_id)
                     /\ ret' = Returns(UpsertRow(landsat_scenes, excluded).scene_id)
  /\ UNCHANGED registerFrame

NextRegister == InsertSceneRow

SpecRegister == InitRegister /\ [][NextRegister]_vars


\* ----------------------------------------------- main.handle_ingest

\* SpecMain follows the ingest command: BronzeIngestion(...), run(), and the
\* exit status of the process.

AllTools == {"raster2pgsql", "psql"}

\* _check_dependencies: how it ends with the tools that shutil.which finds
CheckDependencies_RasterOnly(dry, found_tools) ==
  IF dry \/ "raster2pgsql" \in found_tools THEN "ok"
  ELSE "raster2pgsql not found"

CheckDependencies(dry, found_tools) ==
  IF dry THEN "ok"
  ELSE IF "raster2pgsql" \notin found_tools THEN "raster2pgsql not found"
  ELSE IF "psql" \notin found_tools THEN "psql not found"
  ELSE "ok"

\* handle_ingest after run(): sys.exit(1) when run() raised or counted a
\* failed scene; otherwise the function returns and the process exits with 0
ExitStatus(ended, st) ==
  IF ended = "raised" \/ st.failed_scenes > 0 THEN 1 ELSE 0

InitMain ==
  /\ dry_run \in BOOLEAN
  /\ catalog \in Catalogs
  /\ store \in SUBSET CatalogIds(catalog)
  /\ store0 = store
  /\ PoolIdle
  /\ scratch = {}
  /\ runNo = 1
  /\ prev = NoPrev
  /\ lastCall = NoCall
  /\ arg = NoArg
  /\ ret = NoRet
  /\ TableIdle
  /\ remote_lists = {}
  /\ dl_path = [i \in 1..MaxFiles |-> 0]
  /\ LogIdle
  /\ RunStart
  /\ tools \in SUBSET AllTools
  /\ constructed = "none"
  /\ exit_status = NoExit

\* BronzeIngestion.__init__: load_env, load_config, logger, _get_temp_dir,
\* get_db_connection_string, _check_dependencies; an exception reaches the
\* except Exception of handle_ingest, which exits with 1
Construct ==
  /\ constructed = "none"
  /\ \E cfg \in {"ok", "ConfigError"} :
       LET how == IF cfg # "ok" THEN cfg ELSE CheckDependencies(dry_run, tools)
       IN  /\ constructed' = how
           /\ effects' = IF cfg = "ok" /\ ~dry_run
                           THEN effects \cup {"mkdir"} ELSE effects
           /\ exit_status' = IF how = "ok" THEN exit_status ELSE 1
  /\ UNCHANGED <<envVars, sceneVars, keyVars, poolVars, logVars, tableVars,
                 remote_lists, dl_path, arg, ret, tools, api_key, sent, store, scratch, pc, loginResp,
                 ds, dsResult, stats, dstats, scenes, existing_ids,
                 new_entity_ids, list_id, products, idx, exc, propagating,
                 calls, found, raisedScenes>>

\* stats = ingestion.run(datasets=selected_datasets)
RunStep ==
  /\ constructed = "ok"
  /\ exit_status = NoExit
  /\ Next

\* handle_ingest lines 73-83: the summary and the exit status
Exit ==
  /\ constructed = "ok"
  /\ exit_status = NoExit
  /\ pc \in {"done", "raised"}
  /\ exit_status' = ExitStatus(pc, stats)
  /\ UNCHANGED <<envVars, sceneVars, keyVars, poolVars, logVars, tableVars,
                 remote_lists, dl_path, arg, ret, tools, constructed, api_key, sent, store, scratch,
                 effects, pc, loginResp, ds, dsResult, stats, dstats, scenes,
                 existing_ids, new_entity_ids, list_id, products, idx, exc,
                 propagating, calls, found, raisedScenes>>

NextMain ==
  \/ Construct
  \/ RunStep
  \/ Exit

SpecMain == InitMain /\ [][NextMain]_vars


\* ------------------------------------------ run(): the remote scene lists

\* SpecLists is Spec with the scene lists of the remote followed: the
\* remote creates the list of a scene-list-add it answers with data and
\* removes the list of a scene-list-remove it answers with data.

\* the lists at the remote after add_scenes_to_list(l, ...) answered resp
ListsAfterAdd(lists, key, resp, l) ==
  IF key # NoKey /\ resp = "ok" THEN lists \cup {l} ELSE lists

\* the lists at the remote after the finally block of _process_dataset:
\* delete_list(l) unless dry-run, answered resp
ListsAfterRelease(lists, dry, key, resp, l) ==
  IF ~dry /\ key # NoKey /\ resp = "ok" THEN lists \ {l} ELSE lists

AddScenesToListRemote ==
  \E resp \in RemoteResponses :
    /\ AddScenesToListAnswered(resp)
    /\ remote_lists' = ListsAfterAdd(remote_lists, api_key, resp, <<runNo, ds>>)

ReleaseListRemote ==
  \E resp \in RemoteResponses :
    /\ ReleaseListAnswered(resp)
    /\ remote_lists' =
         ListsAfterRelease(remote_lists, dry_run, api_key, resp, list_id)

NextLists ==
  \/ Login
  \/ SearchScenes
  \/ Deduplicate
  \/ AddScenesToListRemote
  \/ GetDownloadOptions
  \/ RequestDownloads
  \/ DownloadFiles
  \/ FindMtlFile
  \/ InsertSceneMetadata
  \/ IngestBands
  \/ SceneSucceeded
  \/ SceneFailed
  \/ ReleaseListRemote
  \/ RunCollect
  \/ Logout

SpecLists == Init /\ [][NextLists]_vars


\* ------------------------------- the scene loop over the download pool

\* SpecPool follows the download tasks of one scene after the other:
\* _process_scene calls download_files_parallel, goes on to the metadata
\* when it has returned, and ends before the loop of _process_dataset calls
\* _process_scene for the next scene.

poolFrame ==
  <<downloadFrame_base, fnVars, requested, download_results, sc_pos,
    successfully_downloaded_tifs, download_log, band_rows>>

\* _process_scene lines 313-338: download_files_parallel has returned; the
\* results are logged, the metadata file is parsed and the scene registered
ParseAndRegister ==
  /\ dl_pc = "returned"
  /\ sc_pc = "idle"
  /\ sc_pc' = "insert"
  /\ dl_pc' = dl_pc
  /\ UNCHANGED <<poolFrame, dl_scene, dl_items, max_workers, futures, dl_out,
                 dl_results, disk>>

\* _process_scene ends, by return or by exception, and the for loop of
\* _process_dataset (lines 236-248) goes on: the results and the executor of
\* the scene are gone, the next scene has a directory of its own
SceneEnds ==
  /\ dl_pc = "returned"
  /\ sc_pc = "insert"
  /\ sc_pc' = "idle"
  /\ dl_pc' = "idle"
  /\ dl_scene' = 0
  /\ dl_items' = <<>>
  /\ max_workers' = DefaultWorkers
  /\ futures' = <<>>
  /\ dl_out' = <<>>
  /\ dl_results' = <<>>
  /\ disk' = {}
  /\ UNCHANGED poolFrame

NextPool ==
  \/ BeginDownload
  \/ SubmitTask
  \/ StartTask
  \/ FinishTask
  \/ CollectResult
  \/ ReturnResults
  \/ ParseAndRegister
  \/ SceneEnds

SpecPool == InitClient /\ [][NextPool]_vars


\* ------------------------------------ download_file: the local file paths

\* SpecPaths is SpecDownload with the file name of each call resolved from
\* what the remote sends instead of being the product's own.

\* int(time.time()) when a call builds its fallback name
Seconds == {1, 2}

\* output_dir / f"unknown_file_{entity_id}_{int(time.time())}.dat"
FallbackPath(t) == MaxFiles + 1 + t

\* filepath = output_dir / filename of the call for item i: the file name the
\* header or the URL gives (the product's own), or the fallback name
ResolvedPath(i, name, t) == IF name = "own" THEN PathOf(i) ELSE FallbackPath(t)

InitPaths ==
  /\ dry_run \in BOOLEAN
  /\ Constructed
  /\ FnIdle
  /\ LogIdle

pathsFrame ==
  <<downloadFrame_base, arg, ret, tableVars, mainVars, remote_lists, logVars,
    dl_pc, dl_scene, dl_items, max_workers, futures, dl_out, dl_results, disk>>

\* download_file lines 487-512: the response has arrived and the call has
\* chosen its file path
ResolveName ==
  /\ ~dry_run
  /\ \E i \in DOMAIN futures, name \in {"own", "fallback"}, t \in Seconds :
       /\ futures[i] = "running"
       /\ dl_path[i] = NoPath
       /\ dl_path' = [dl_path EXCEPT ![i] = ResolvedPath(i, name, t)]
  /\ UNCHANGED pathsFrame

\* a download_file call ends: before it had a file path (the GET raised), or
\* with the file at its path
FinishTaskAtPath ==
  \E i \in DOMAIN futures, resp \in DownloadResponses, partial \in BOOLEAN :
    /\ dry_run \/ (resp = "httpError" => dl_path[i] = NoPath)
    /\ dry_run \/ (resp \in {"json", "empty", "body", "ioError"} => dl_path[i] # NoPath)
    /\ dl_path[i] = NoPath => ~partial
    /\ FinishTaskAs(i, resp, partial, dl_path[i])

NextPaths ==
  \/ BeginDownload
  \/ SubmitTask
  \/ StartTask
  \/ ResolveName
  \/ FinishTaskAtPath
  \/ CollectResult
  \/ ReturnResults

SpecPaths == InitPaths /\ [][NextPaths]_vars


\* ================================================================ claims

CallsOf(op, d) == {i \in 1..Len(calls) : calls[i].op = op /\ calls[i].ds = d}

\* positions of run() inside the iteration of dataset ds, after the search
InIteration ==
  pc \in {"dedup", "add", "options", "scene", "download", "mtl", "insert",
          "ingest", "scene_ok", "scene_exc", "finally", "ds_end"}

\* C1: in a non-dry-run run, when a dataset iteration that called
\* add_scenes_to_list with a list id has ended (by return or by exception),
\* delete_list was called exactly once with that list id after the add.
C1_ListDeletedOnEveryExit ==
  (~dry_run /\ pc = "ds_end") =>
    \A i \in CallsOf("add_scenes_to_list", ds) :
      Cardinality({j \in CallsOf("delete_list", ds) :
                     j > i /\ calls[j].list = calls[i].list}) = 1

\* C2: in a run that follows a clean non-dry-run run and whose searches
\* return what they returned then, no dataset has a new scene, neither
\* add_scenes_to_list nor request_downloads is called, and when it ends the
\* number of Scene rows is what it was.
C2_SecondRunFindsNothingNew ==
  (/\ runNo > 1
   /\ prev.clean
   /\ \A d \in 1..Len(found) : found[d] = prev.found[d])
  =>
    /\ new_entity_ids = <<>>
    /\ \A i \in 1..Len(calls) :
         calls[i].op \notin {"add_scenes_to_list", "request_downloads"}
    /\ (pc = "done" => Cardinality(store) = prev.rows)

\* C3: in a non-dry-run run, right after deduplication the new ids are the
\* search results that are not in the store; the ids handed to
\* add_scenes_to_list, _process_scene and request_downloads in the iteration
\* are search results that _get_existing_entity_ids did not return (all of
\* them for the list, and for the scene loop when the iteration returns);
\* with no new id there is no list call and no download request.
C3_OnlyNewIdsProceed ==
  (~dry_run /\ InIteration) =>
    LET new == Range(scenes) \ existing_ids
    IN  /\ (pc = "add" =>
              /\ existing_ids = Range(scenes) \cap store
              /\ Range(new_entity_ids) = Range(scenes) \ store)
        /\ \A i \in CallsOf("add_scenes_to_list", ds) :
             /\ Range(calls[i].ids) = new
             /\ Range(calls[i].ids) \cap existing_ids = {}
        /\ \A i \in CallsOf("_process_scene", ds) \cup CallsOf("request_downloads", ds) :
             calls[i].ids[1] \in new
        /\ (pc = "ds_end" /\ dsResult = "returned"
              /\ CallsOf("add_scenes_to_list", ds) # {}) =>
             {calls[i].ids[1] : i \in CallsOf("_process_scene", ds)} = new
        /\ (pc # "dedup" /\ new = {}) =>
             /\ CallsOf("add_scenes_to_list", ds) = {}
             /\ CallsOf("request_downloads", ds) = {}
             /\ CallsOf("_process_scene", ds) = {}

\* C3 witness: an iteration with a persisted and a new search result has
\* listed and processed the new one and returned
C3_Witness ==
  /\ ~dry_run
  /\ pc = "ds_end" /\ dsResult = "returned"
  /\ existing_ids # {}
  /\ CallsOf("add_scenes_to_list", ds) # {}
  /\ CallsOf("_process_scene", ds) # {}
  /\ dstats.successful_scenes = 1

\* C4: in a dry run no scene-list-add and no scene-list-remove request
\* reaches the remote, and nothing is created or removed on the filesystem,
\* no database statement is executed and no external tool is started.
C4_DryRunHasNoSideEffects ==
  dry_run =>
    /\ "scene-list-add" \notin sent
    /\ "scene-list-remove" \notin sent
    /\ effects = {}

\* C5: when a dataset iteration has ended and _process_scene raised for one
\* of its new scenes, every later new scene of the dataset was handed to
\* _process_scene too.
C5_LaterScenesStillProcessed ==
  pc = "ds_end" =>
    \A i \in 1..Len(new_entity_ids) :
      new_entity_ids[i] \in raisedScenes =>
        \A k \in (i + 1)..Len(new_entity_ids) :
          \E c \in CallsOf("_process_scene", ds) : calls[c].ids[1] = new_entity_ids[k]

SearchedAll == Len(found) = NumDatasets

\* C6: when _process_dataset raised for a dataset, run() appends exactly one
\* error message for that dataset and goes on to the next dataset (or leaves
\* the loop after the last one); once the session was entered run() never
\* raises, and when it returns every dataset of the list was searched.
C6_DatasetFailureContained ==
  /\ [][(pc = "ds_end" /\ dsResult = "raised") =>
          /\ stats'.errors = Append(stats.errors, DatasetError(ds))
          /\ IF ds < NumDatasets
               THEN pc' = "search" /\ ds' = ds + 1
               ELSE pc' = "exit"]_vars
  /\ [](pc = "raised" => ds = 0)
  /\ [](pc = "done" => SearchedAll)

\* C6 witness: run() returned, the first dataset raised and a later dataset
\* had a scene processed successfully
C6_Witness ==
  /\ pc = "done"
  /\ NumDatasets > 1
  /\ DatasetError(1) \in Range(stats.errors)
  /\ stats.successful_scenes > 0

\* C7: when run() returns, failed_scenes is the number of scenes whose
\* processing raised, and errors holds exactly one message for each.
C7_FailedScenesCounted ==
  pc = "done" =>
    /\ stats.failed_scenes = Cardinality(raisedScenes)
    /\ \A e \in raisedScenes :
         Cardinality({i \in 1..Len(stats.errors) : stats.errors[i] = SceneError(e)}) = 1

\* C8: when _process_scene has ended for a scene, by returning or by raising
\* after the scratch directory was created, the directory does not exist.
C8_ScratchRemovedOnEveryExit ==
  (pc = "scene_ok" \/ (pc = "scene_exc" /\ exc # "request")) =>
    CurrentScene \notin scratch

\* C9: when the login response carries an error code or the login transport
\* fails, run() ends with an error and no dataset is searched.
C9_LoginFailureEndsRun ==
  loginResp \in {"apiError", "transport"} =>
    /\ pc = "raised"
    /\ found = <<>>

\* C10: a domain operation called while the client holds no api_key raises
\* the not-logged-in error and sends no request, in dry-run or not.
C10_NoTokenNoCall ==
  (lastCall.op \in DomainOps /\ lastCall.key = NoKey) =>
    /\ lastCall.out = "NotLoggedIn"
    /\ ~lastCall.requested

\* C11: logout() returns None whatever the session state and whatever the
\* logout request does; after it the client holds no api_key; a logout()
\* called without an api_key sends no request and changes neither the
\* api_key nor the requests sent.
C11_LogoutNeverRaises ==
  /\ [](lastCall.op = "logout" =>
          /\ lastCall.out = "None"
          /\ api_key = NoKey
          /\ (lastCall.key = NoKey => ~lastCall.requested))
  /\ [][(/\ Len(calls') > Len(calls)
          /\ calls'[Len(calls')].op = "logout"
          /\ api_key = NoKey) => (sent' = sent /\ api_key' = api_key)]_vars

\* C11 witness: a logout() made without an api_key after an earlier logout()
\* that sent its request
C11_Witness ==
  /\ lastCall.op = "logout"
  /\ lastCall.key = NoKey
  /\ "logout" \in sent

\* C12: a call of add_scenes_to_list, get_download_options, request_downloads
\* or delete_list whose request is answered with an envelope carrying an
\* error code raises to its caller.
C12_ApiErrorRaises ==
  (/\ lastCall.op \in {"add_scenes_to_list", "get_download_options",
                       "request_downloads", "delete_list"}
   /\ lastCall.requested
   /\ lastCall.resp = "apiError") => Raises(lastCall.out)

C14_RowBeforeBands ==
  /\ []((~dry_run /\ pc \in {"ingest", "scene_ok"}) =>
          /\ scene_id \in store
          /\ scene_id \in {SceneKey(CurrentScene),
                            SceneKey(ProductIdOf(CurrentScene))})
  /\ [](band_keys \subseteq ({scene_id} \cap store))
  /\ [][band_keys' # band_keys /\ band_keys' # {} =>
          pc = "ingest" /\ scene_id \in store]_vars

\* C14 witness: a non-dry-run scene returned with bands stored under the key
\* of its row
C14_Witness ==
  /\ ~dry_run
  /\ pc = "scene_ok"
  /\ bands > 0
  /\ band_keys = {scene_id}
  /\ scene_id \in store

\* C15: the row written while _process_scene handles new entity id B has
\* entity_id B; when run() returns, the store holds the ids it held when the
\* run started plus searched entity ids whose processing did not raise, and
\* nothing else.
C15_RowCarriesEntityId ==
  /\ [][store' # store => store' = store \cup {CurrentScene}]_vars
  /\ [](pc = "done" =>
          /\ store0 \subseteq store
          /\ \A x \in store \ store0 :
               x \in CatalogIds(catalog) /\ x \notin raisedScenes)

\* C16: when _process_dataset returns, total_scenes is the number of search
\* results and successful_scenes + failed_scenes is the number of new entity
\* ids, and run() adds both to its statistics; with search results [1, 2],
\* 1 persisted and no dataset error, a non-dry-run run() returns
\* total_scenes = 2 and successful_scenes = 1 when 2 succeeds, 0 when the
\* processing of 2 fails.
C16_StatsCountScenes ==
  /\ []((pc = "ds_end" /\ dsResult = "returned") =>
          /\ dstats.total_scenes = Len(scenes)
          /\ dstats.successful_scenes + dstats.failed_scenes = Len(new_entity_ids))
  /\ [][(pc = "ds_end" /\ dsResult = "returned") =>
          /\ stats'.total_scenes = stats.total_scenes + Len(scenes)
          /\ stats'.successful_scenes + stats'.failed_scenes =
               stats.successful_scenes + stats.failed_scenes + Len(new_entity_ids)]_vars
  /\ []((pc = "done" /\ ~dry_run
          /\ found # <<>> /\ found[1] = <<1, 2>>
          /\ (\A d \in 2..Len(found) : found[d] = <<>>)
          /\ store0 = {1}
          /\ (\A k \in 1..NumDatasets :
                 DatasetError(k) \notin Range(stats.errors))) =>
          /\ stats.total_scenes = 2
          /\ stats.successful_scenes = (IF 2 \in raisedScenes THEN 0 ELSE 1)
          /\ stats.failed_scenes = (IF 2 \in raisedScenes THEN 1 ELSE 0))

\* C16 witness: run() returned after a dataset with search results [1, 2],
\* 1 persisted, in which the processing of 2 failed
C16_Witness ==
  /\ pc = "done" /\ ~dry_run
  /\ found # <<>> /\ found[1] = <<1, 2>>
  /\ store0 = {1}
  /\ stats.total_scenes = 2
  /\ 2 \in raisedScenes
  /\ stats.failed_scenes = 1

\* C17: download_files_parallel returns exactly one result per input item,
\* in any order and for any mix of successes and failures: when it returns,
\* the results are as many as the items, each item's url is in exactly one
\* result, that result has the item's entity id and the success of the
\* item's download_file call, a call that raised has a failed result with an
\* error, and every submitted call has run to completion.
C17_OneResultPerItem ==
  dl_pc = "returned" =>
    /\ Len(dl_results) = Len(dl_items)
    /\ \A i \in DOMAIN dl_items :
         /\ futures[i] = "collected"
         /\ Cardinality({k \in DOMAIN dl_results :
                           dl_results[k].url = dl_items[i].url}) = 1
         /\ \A k \in DOMAIN dl_results :
              dl_results[k].url = dl_items[i].url =>
                /\ dl_results[k].entity_id = dl_items[i].entityId
                /\ dl_results[k].success = (~dl_out[i].raised /\ dl_out[i].success)
                /\ dl_out[i].raised =>
                     (~dl_results[k].success /\ dl_results[k].error
                        /\ dl_results[k].filepath = NoPath)

\* a batch returned with a call that raised and a call that succeeded, its
\* results not in the order of the items
C17_Witness ==
  /\ dl_pc = "returned"
  /\ Len(dl_results) >= 2
  /\ dl_results[1].url # dl_items[1].url
  /\ \E i \in DOMAIN dl_out : dl_out[i].raised
  /\ \E k \in DOMAIN dl_results : dl_results[k].success

\* C18: at most max_workers download_file calls are in progress at any time,
\* max_workers being the configured value or 5; every call in progress is for
\* the one scene being processed, and none is in progress before the call of
\* download_files_parallel or after its return.
C18_BoundedWorkers ==
  /\ max_workers \in (1..MaxWorkers) \cup {DefaultWorkers}
  /\ Cardinality({i \in DOMAIN futures : futures[i] = "running"}) <= max_workers
  /\ \A i \in DOMAIN futures :
       futures[i] = "running" => dl_items[i].entityId = dl_scene
  /\ dl_pc \in {"idle", "returned"} =>
       \A i \in DOMAIN futures : futures[i] # "running"

\* the pool is full and a submitted call waits for a worker
C18_Witness ==
  /\ Cardinality({i \in DOMAIN futures : futures[i] = "running"}) = max_workers
  /\ \E i \in DOMAIN futures : futures[i] = "pending"

\* C19: download_file, on a response whose Content-Type contains
\* application/json, returns a failed result with an error message and no
\* file path, writes nothing (the directory loses at most the file at the
\* resolved path) and leaves no file at the resolved path.
C19_JsonResponseFails ==
  /\ [][\A i \in DOMAIN futures :
          (/\ futures[i] = "running"
           /\ i \in DOMAIN futures'
           /\ futures'[i] = "done"
           /\ dl_out'[i].resp = "json") => disk' = disk \ {PathOf(i)}]_vars
  /\ [](\A i \in DOMAIN futures :
          (futures[i] \in {"done", "collected"} /\ dl_out[i].resp = "json") =>
            /\ ~dl_out[i].raised
            /\ ~dl_out[i].success
            /\ dl_out[i].error
            /\ dl_out[i].filepath = NoPath
            /\ PathOf(i) \notin disk)

\* a call answered with JSON has ended, and the batch has returned
C19_Witness ==
  /\ dl_pc = "returned"
  /\ \E i \in DOMAIN futures : dl_out[i].resp = "json" /\ ~dl_out[i].success

\* C20: download_file, on a response with a zero-length body, returns a
\* failed result with a null file path and leaves no file at the resolved
\* path.
C20_EmptyBodyFails ==
  \A i \in DOMAIN futures :
    (futures[i] \in {"done", "collected"} /\ dl_out[i].resp = "empty") =>
      /\ ~dl_out[i].raised
      /\ ~dl_out[i].success
      /\ dl_out[i].filepath = NoPath
      /\ PathOf(i) \notin disk

\* a call that got a zero-length body has ended with a failed result
C20_Witness ==
  \E i \in DOMAIN futures :
    /\ futures[i] \in {"done", "collected"}
    /\ dl_out[i].resp = "empty"
    /\ ~dl_out[i].success
    /\ dl_out[i].filepath = NoPath

\* C21: the local file name chosen by download_file is the file name of the
\* Content-Disposition header when the header gives one, else the basename
\* of the URL path when it is not empty and not 'download', else the
\* generated fallback name with the entity id.
C21_FilenamePriority ==
  (arg.fn = "filename" /\ ret.done) =>
    ret.value =
      (IF HeaderFilename(arg.header) # <<>> THEN HeaderFilename(arg.header)
       ELSE IF arg.url # <<>> /\ arg.url # <<"download">> THEN arg.url
       ELSE FallbackFilename(arg.entity))

\* C24: the band name of a downloaded file is the first '_'-separated token
\* equal to SR, ST or QA (that has a token after it) joined with the next
\* token up to its first '.', or MTL when there is no such token and the name
\* contains MTL; a transferred file with no band name gets a download_log row
\* with status failed and is not handed to band ingestion, every other
\* transferred file gets a row with status success and its band name.
C24_BandNameFromTokens ==
  (arg.fn = "band" /\ ret.done /\ arg.success) =>
    LET f == arg.filename
        IsTag(i) == Len(f[i]) = 1 /\ f[i][1] \in {"SR", "ST", "QA"}
        first == {i \in 1..(Len(f) - 1) :
                    IsTag(i) /\ \A j \in 1..(i - 1) : ~IsTag(j)}
        mtl == \E i \in 1..Len(f) : \E k \in 1..Len(f[i]) :
                 f[i][k] \in {"MTL", "mtl"}
        named == first # {} \/ mtl
    IN  /\ \A i \in first :
             /\ ret.value.status = "success"
             /\ ret.value.band = <<f[i][1], f[i + 1][1]>>
        /\ (first = {} /\ mtl) =>
             (ret.value.status = "success" /\ ret.value.band = <<"MTL">>)
        /\ ~named => (ret.value.status = "failed" /\ ~ret.value.kept)
        /\ ret.value.kept = (ret.value.status = "success")

\* a transferred file whose name gives no band name, logged as failed
C24_Witness ==
  /\ arg.fn = "band" /\ ret.done /\ arg.success
  /\ ret.value.status = "failed"
  /\ ret.value.band = <<"UNKNOWN_BAND">>
  /\ ~ret.value.kept

\* C22: outside dry-run, each iteration of the loop over download_results
\* whose INSERT does not raise appends one download_log row for the result,
\* with status success when the result succeeded and its file name gives a
\* band name and status failed otherwise; after the loop the last rows of the
\* log are the rows of the results, one each and in their order; a row that
\* is in the log is never changed or removed.
C22_OneLogRowPerResult ==
  /\ [][/\ Len(download_log') >= Len(download_log)
        /\ SubSeq(download_log', 1, Len(download_log)) = download_log]_vars
  /\ [][(sc_pc = "log" /\ ~dry_run /\ sc_pc' # "raised") =>
          /\ Len(download_log') = Len(download_log) + 1
          /\ download_log'[Len(download_log')].download_url =
               download_results[sc_pos].url]_vars
  /\ []((~dry_run /\ sc_pc \in {"check", "insert", "ingest", "returned"}) =>
          /\ Len(download_log) >= Len(download_results)
          /\ \A k \in 1..Len(download_results) :
               LET r == download_results[k]
                   row == download_log[Len(download_log) - Len(download_results) + k]
               IN  /\ row.entity_id = r.entity_id
                   /\ row.download_url = r.url
                   /\ row.download_status =
                        (IF r.success /\ ExtractBandName(r.filename) # <<>>
                           THEN "success" ELSE "failed"))

\* a scene returned whose two results were logged after a row of an earlier
\* run, one as success and one as failed
C22_Witness ==
  /\ ~dry_run
  /\ sc_pc = "returned"
  /\ Len(download_results) = 2
  /\ Len(download_log) = 3
  /\ download_log[1] = OldLogRow
  /\ \E k \in 2..3 : download_log[k].download_status = "failed"
  /\ \E k \in 2..3 : download_log[k].download_status = "success"

\* C23: when _process_scene has registered a scene and returned, every band
\* file requested for it that was not stored as a band row has a download_log
\* row with status failed for the scene and the file.
C23_PartialBandSetInLog ==
  (~dry_run /\ sc_pc = "returned") =>
    \A f \in requested :
      (ExtractBandName(f) # <<"MTL">> /\ f \notin band_rows) =>
        \E k \in 1..Len(download_log) :
          /\ download_log[k].entity_id = SceneEntity
          /\ download_log[k].download_url = f
          /\ download_log[k].download_status = "failed"

\* C25: a request sent through the client session is sent again only after
\* a network-level failure or a 429, 500, 502, 503 or 504 response, and at
\* most max_retries times per call; any other response is returned to the
\* caller after a single attempt.
C25_RetryOnlyListedFailures ==
  (arg.fn = "send" /\ ret.done) =>
    /\ \A k \in 1..(ret.value.attempts - 1) :
         arg.answers[k] \in {"netfail", "429", "500", "502", "503", "504"}
    /\ ret.value.attempts <= arg.max_retries + 1
    /\ arg.answers[1] \notin {"netfail", "429", "500", "502", "503", "504"} =>
         (ret.value.attempts = 1 /\ ret.value.out = arg.answers[1])

\* C26: for a metadata file whose extension is neither .txt nor .xml the
\* format is decided by the first non-blank line: a line that starts with
\* the markup declaration selects the markup grammar, also when it contains
\* '='; a line that does not start with '<' and contains '=' selects the
\* text grammar; a file with no such line fails with an unknown-format error.
C26_FormatFromFirstNonBlankLine ==
  (arg.fn = "format" /\ ret.done /\ arg.suffix \notin {".txt", ".xml"}) =>
    LET nonBlank == {k \in 1..Len(arg.lines) : arg.lines[k] # <<>>}
    IN  IF nonBlank = {} THEN ret.raised
        ELSE LET line == arg.lines[CHOOSE k \in nonBlank : \A j \in nonBlank : k <= j]
             IN  /\ line[1] = "<?xml" => (~ret.raised /\ ret.value = "xml")
                 /\ (line[1] \notin {"<?xml", "<"}
                       /\ \E k \in 1..Len(line) : line[k] = "=") =>
                      (~ret.raised /\ ret.value = "txt")

\* C27: in a text-grammar file whose groups are closed in order, each
\* KEY = VALUE line is stored under the names of all GROUP blocks open at
\* that line, outermost first, followed by KEY: the keys of the parsed map
\* are those of the KEY lines.
C27_KeysByGroupPath ==
  (arg.fn = "parse" /\ ret.done /\ WellFormed(arg.doc)) =>
    LET doc == arg.doc
        Opener(k, i) ==
          /\ doc[k].t = "group"
          /\ \A j \in k..(i - 1) : Depth(doc, j) >= Depth(doc, k)
        OpenAt(i) == {k \in 1..(i - 1) : Opener(k, i)}
        Expected(i) ==
          [n \in 1..(Cardinality(OpenAt(i)) + 1) |->
             IF n = Cardinality(OpenAt(i)) + 1 THEN doc[i].name
             ELSE doc[CHOOSE k \in OpenAt(i) : Depth(doc, k) = n].name]
    IN  {p[1] : p \in ret.value.txt} =
          {Expected(i) : i \in {k \in 1..Len(doc) : doc[k].t = "kv"}}

\* C28: a text-grammar file and a markup-grammar file with the same nesting
\* and the same leaf values give the same key-to-value map from parse().
C28_TxtAndXmlAgree ==
  (arg.fn = "parse" /\ ret.done /\ WellFormed(arg.doc)) =>
    ret.value.txt = ret.value.xml

\* C29: when all eight corner fields of the file resolve, whatever their
\* values, the footprint is the ring UL, UR, LR, LL, UL with longitude before
\* latitude in each point; when any of them does not resolve it is null.
C29_FootprintRing ==
  (arg.fn = "footprint" /\ ret.done) =>
    LET Coord(i) == IF arg.coords[i] = "zero" THEN 0 ELSE Nominal[i]
        Resolved == \A i \in 1..Len(CornerFields) : arg.coords[i] # "absent"
    IN  IF Resolved
        THEN /\ ~ret.value.null
             /\ ret.value.ring = << <<Coord(1), Coord(2)>>, <<Coord(3), Coord(4)>>,
                                    <<Coord(5), Coord(6)>>, <<Coord(7), Coord(8)>>,
                                    <<Coord(1), Coord(2)>> >>
        ELSE ret.value.null

\* C30: a statement of _insert_scene_metadata for an entity_id that already
\* has a row leaves the number of rows unchanged, changes nothing but
\* cloud_cover, sun_azimuth and sun_elevation of that row, and returns the
\* scene_id of that row.
C30_UpsertOnlySunAndCloud ==
  [][(/\ scene_id_seq' = scene_id_seq + 1
      /\ \E r \in landsat_scenes : r.entity_id = arg'.md.entity_id)
     =>
     \E r \in landsat_scenes :
       /\ r.entity_id = arg'.md.entity_id
       /\ Cardinality(landsat_scenes') = Cardinality(landsat_scenes)
       /\ landsat_scenes \ {r} \subseteq landsat_scenes'
       /\ \E u \in landsat_scenes' :
            /\ landsat_scenes' = (landsat_scenes \ {r}) \cup {u}
            /\ u.scene_id = r.scene_id
            /\ u.entity_id = r.entity_id
            /\ u.other = r.other
       /\ ret'.done /\ ~ret'.raised
       /\ ret'.value = r.scene_id]_vars

\* a second edition of an entity's file was registered: its sun and cloud
\* values are in the row, the other columns are those of the first edition
C30_Witness ==
  /\ arg.fn = "register" /\ ret.done /\ ~ret.raised
  /\ scene_id_seq > Cardinality(landsat_scenes)
  /\ \E r \in landsat_scenes :
       /\ r.entity_id = arg.md.entity_id
       /\ r.other # arg.md.other
       /\ r.cloud_cover = arg.md.cloud_cover
       /\ r.scene_id = ret.value
       /\ r.scene_id < scene_id_seq

\* C31: when BronzeIngestion(...) has ended in non-dry-run mode with
\* raster2pgsql or psql absent, it ended with an error, no request has reached
\* the remote and run() was not entered; in dry-run mode it never ends with a
\* missing-tool error, whichever tools are present.
C31_MissingToolFailsConstruction ==
  (constructed # "none") =>
    /\ (~dry_run /\ tools # AllTools) =>
         /\ constructed # "ok"
         /\ sent = {} /\ pc = "start"
         /\ exit_status = 1
    /\ dry_run => constructed \in {"ok", "ConfigError"}

C31_Witness ==
  /\ ~dry_run
  /\ tools = {"raster2pgsql"}
  /\ constructed = "psql not found"
  /\ exit_status = 1

\* C32: at every moment of a non-dry-run run at most one scene list created
\* by the run exists at the remote, and while a dataset iteration holds a list
\* it is that iteration's list.
C32_AtMostOneRemoteList ==
  ~dry_run =>
    /\ Cardinality(remote_lists) <= 1
    /\ (pc \in {"options", "scene", "finally"}) => remote_lists \subseteq {list_id}

\* C33: while the metadata of a scene is parsed and registered no download
\* task of the scene is queued or running, and download_files_parallel is
\* called for the next scene only when every task of the scene before it has
\* finished and _process_scene has ended.
C33_OneSceneAtATime ==
  /\ [](sc_pc = "insert" =>
          \A i \in DOMAIN futures : futures[i] \in {"done", "collected"})
  /\ [][(dl_pc' = "submit" /\ dl_pc # "submit") =>
          /\ sc_pc = "idle"
          /\ \A i \in DOMAIN futures : futures[i] \in {"done", "collected"}]_vars
  /\ [][(\E i \in DOMAIN futures' :
            /\ futures'[i] = "running"
            /\ (i \in DOMAIN futures => futures[i] # "running"))
          => (dl_pc \in {"submit", "collect"} /\ sc_pc = "idle")]_vars

\* the metadata of a scene that had two download tasks is being registered
C33_Witness ==
  /\ sc_pc = "insert"
  /\ Len(dl_items) = 2
  /\ \A i \in DOMAIN futures : futures[i] = "collected"
  /\ dl_scene = 2

\* C34: a download_file call that returns a failed result, the transfer
\* having raised after part of the body was written included, leaves no file
\* of its own in the output directory: the file at its path, if there is one
\* afterwards, was there before the call ended.
C34_FailedDownloadLeavesNoFile ==
  [][\A i \in DOMAIN futures :
       (/\ futures[i] = "running"
        /\ i \in DOMAIN futures'
        /\ futures'[i] = "done"
        /\ ~dl_out'[i].raised
        /\ ~dl_out'[i].success)
       => (PathOf(i) \in disk' => PathOf(i) \in disk)]_vars

\* C35: in a non-dry-run download_files_parallel call no two download_file
\* calls that are running have chosen the same file path, and when it returns
\* the successful results carry pairwise distinct file paths.
C35_DistinctPaths ==
  ~dry_run =>
    /\ \A i, j \in DOMAIN futures :
         (/\ i # j
          /\ futures[i] = "running" /\ futures[j] = "running"
          /\ dl_path[i] # NoPath) => dl_path[i] # dl_path[j]
    /\ dl_pc = "returned" =>
         \A k, m \in DOMAIN dl_results :
           (k # m /\ dl_results[k].success /\ dl_results[m].success)
             => dl_results[k].filepath # dl_results[m].filepath

\* C36: when run() has returned, every dataset whose scene-search was sent
\* with a token and came back without the scenes the remote holds (an
\* errorCode, a transport failure, or any other failure of the call) has an
\* error message in stats['errors'].
C36_FailedSearchRecorded ==
  (pc = "done" /\ loginResp = "ok") =>
    \A d \in DOMAIN found :
      (found[d] = <<>> /\ catalog[d] # <<>>)
        => \E k \in DOMAIN stats.errors : stats.errors[k] = DatasetError(d)

\* C37: in a non-dry-run run a scene is added to successful_scenes only when
\* _ingest_bands_to_postgis stored at least one of its spectral bands.
C37_SuccessfulSceneHasBand ==
  [][(~dry_run /\ dstats'.successful_scenes > dstats.successful_scenes)
       => (bands > 0 /\ band_keys # {})]_vars

\* C38: when run() has ended after a login that was answered with a token,
\* the logout request has been sent and the client holds no token; the logout
\* request is sent by a client that holds a token and gives it up in that
\* step, so it is sent once; and nothing is sent after it, so it follows the
\* list operations of the last dataset.
C38_LogoutOnceAtTheEnd ==
  /\ []((pc \in {"done", "raised"} /\ loginResp = "ok")
          => ("logout" \in sent /\ api_key = NoKey))
  /\ [][("logout" \notin sent /\ "logout" \in sent')
          => (api_key # NoKey /\ api_key' = NoKey /\ pc' \in {"done", "raised"})]_vars
  /\ [][("logout" \in sent) => (sent' = sent /\ api_key' = NoKey)]_vars

C38_Witness ==
  /\ pc = "done"
  /\ loginResp = "ok"
  /\ {"logout", "scene-list-add", "scene-list-remove"} \subseteq sent
  /\ api_key = NoKey

\* C39: when the ingest command exits after run() returned its statistics,
\* the exit status is 0 exactly when stats['errors'] is empty.
C39_ExitStatusFollowsErrors ==
  (exit_status # NoExit /\ pc = "done") =>
    (exit_status = 0 <=> stats.errors = <<>>)

\* the positions of one dataset iteration, in the order the code reaches them
Stages ==
  <<{"search"}, {"dedup"}, {"add"}, {"options"}, {"scene"}, {"download"},
    {"mtl"}, {"insert"}, {"ingest"}, {"scene_ok", "scene_exc"}, {"finally"},
    {"ds_end"}>>

StageOf(p) == CHOOSE i \in DOMAIN Stages : p \in Stages[i]

\* how far run() has come: dataset, then scene, then position
Progress ==
  LET perScene == Len(Stages)
      perDataset == (MaxScenes + 3) * perScene
  IN  CASE pc = "start" -> 0
        [] pc = "exit" -> (NumDatasets + 1) * perDataset
        [] pc \in {"done", "raised"} -> (NumDatasets + 1) * perDataset + 1
        [] OTHER -> ds * perDataset + idx * perScene + StageOf(pc)

====
